---------------------------- MODULE Spec2Model ----------------------------
(***************************************************************************)
(* A model of the text-to-procedure pipeline of rvucalc                    *)
(* (src/wrvu_gui.py, class SimpleWRVUCalculator; src/wrvu_simple_backup.py *)
(* holds the same functions with a built-in catalog).                      *)
(*                                                                         *)
(* Conventions.                                                            *)
(*  - A Python str is a sequence of characters; a character is a one-      *)
(*    letter TLA+ string ("A", " ", "\t", "-").  The em-dash U+2014 is the *)
(*    character written "EM".                                              *)
(*  - A Python dict is a sequence of <<key, value>> pairs in insertion     *)
(*    order (dicts iterate in insertion order).                            *)
(*  - A wRVU weight is a Python float; the decimal it was written as is    *)
(*    given in hundredths (float_of(124) is the float 1.24).               *)
(***************************************************************************)
EXTENDS Integers, Sequences, FiniteSets, TLC

VARIABLES
    pc,               \* position of the run being modelled
    text,             \* clean_pacs_text: its argument
    cleaned,          \* clean_pacs_text(text)
    recleaned,        \* clean_pacs_text(cleaned)
    proc_name,        \* fuzzy_match: the catalog name
    line,             \* fuzzy_match: the line
    accepted,         \* fuzzy_match(proc_name, line)
    procedure_db,     \* SimpleWRVUCalculator.procedure_db
    procedure_lines,  \* argument of find_procedures_in_reconstructed_text
    procedures,       \* the match records
    unmatched_lines,  \* the unmatched cleaned lines
    generic_lines,    \* the cleaned lines matched generically
    results,          \* calculate_wrvus: per-identity results
    total_exams,      \* calculate_wrvus: total occurrences
    total_wrvus,      \* calculate_wrvus: total weight (a float)
    generic_count,    \* calculate_wrvus: generic occurrences
    raised,           \* the exception calculate_wrvus ended with, or "no"
    generic_result,   \* try_generic_match(line)
    raw_lines,        \* reconstruct_procedure_lines: lines, stripped, non-empty
    line_index,       \* the loop's position in raw_lines
    current_procedure,    \* the entry being assembled
    reconstructed_lines,  \* the entries finished so far
    current_fragments,    \* the positions of the raw lines assembled in
                          \* current_procedure
    line_fragments,   \* for each finished entry, the positions of the raw
                      \* lines assembled in it
    image_paths,      \* calculate_thread: its argument, the run's images
    image_index,      \* how many images the loop has taken
    all_procedures,   \* the accumulator of match records
    all_unmatched,    \* the accumulator of unmatched lines
    all_generic,      \* the accumulator of generically matched lines
    aggregator_calls, \* how many times the run has called calculate_wrvus
    gui_results,      \* the arguments handed to update_gui_results
    selected_files,   \* WRVUCalculatorGUI.selected_files
    status_label,     \* the text of status_label
    threads,          \* the calculate_thread threads that have not handed
                      \* back yet, each with its locals
    after_queue,      \* the update closures scheduled with root.after(0, ..)
                      \* and not run yet, oldest first
    progress,         \* the progress bar: "stopped" or "running"
    calculate_btn,    \* the state of the Calculate button
    results_label,    \* the text and the foreground of results_label
    unmatched_procedures, \* WRVUCalculatorGUI.unmatched_procedures
    unmatched_text,   \* the content of the unmatched_text widget
    email_btn,        \* the state of the email button
    cleared           \* history: Clear All has run and no calculation was
                      \* started since

vars == <<pc, text, cleaned, recleaned, proc_name, line, accepted,
          procedure_db, procedure_lines, procedures, unmatched_lines,
          generic_lines, results, total_exams, total_wrvus, generic_count,
          raised, generic_result, raw_lines, line_index, current_procedure,
          reconstructed_lines, current_fragments, line_fragments,
          image_paths, image_index, all_procedures, all_unmatched,
          all_generic, aggregator_calls, gui_results, selected_files,
          status_label, threads, after_queue, progress, calculate_btn,
          results_label, unmatched_procedures, unmatched_text, email_btn,
          cleared>>

cleanVars == <<text, cleaned, recleaned>>
acceptVars == <<proc_name, line, accepted>>
matchVars == <<procedure_db, procedure_lines, procedures, unmatched_lines,
               generic_lines>>
aggVars == <<results, total_exams, total_wrvus, generic_count, raised>>
genericVars == <<generic_result>>

\* the variables the matcher, the aggregator, the cleaner and the acceptance
\* test leave alone
reconVars == <<raw_lines, line_index, current_procedure,
               reconstructed_lines, current_fragments, line_fragments>>
runVars == <<image_paths, image_index, all_procedures, all_unmatched,
             all_generic, aggregator_calls, gui_results>>
guiVars == <<selected_files, status_label, threads, after_queue, progress,
             calculate_btn, results_label, unmatched_procedures,
             unmatched_text, email_btn, cleared>>
moreVars == <<genericVars, reconVars, runVars, guiVars>>

\* None where a str is expected: like the empty str, it is false in a test
None == <<>>

(***************************************************************************)
(* Python's str operations, on sequences of characters.                    *)
(***************************************************************************)
Range(f) == {f[i] : i \in DOMAIN f}

ascii_lowercase ==
    <<"a", "b", "c", "d", "e", "f", "g", "h", "i", "j", "k", "l", "m",
      "n", "o", "p", "q", "r", "s", "t", "u", "v", "w", "x", "y", "z">>

ascii_uppercase ==
    <<"A", "B", "C", "D", "E", "F", "G", "H", "I", "J", "K", "L", "M",
      "N", "O", "P", "Q", "R", "S", "T", "U", "V", "W", "X", "Y", "Z">>

digits == {"0", "1", "2", "3", "4", "5", "6", "7", "8", "9"}

whitespace == {" ", "\t", "\n", "\r"}

lowercase_letters == Range(ascii_lowercase)
uppercase_letters == Range(ascii_uppercase)

\* c.upper() for one character
upper_char(c) ==
    IF c \in lowercase_letters
    THEN ascii_uppercase[CHOOSE i \in DOMAIN ascii_lowercase :
                             ascii_lowercase[i] = c]
    ELSE c

\* s.upper()
upper(s) == SubSeq([i \in DOMAIN s |-> upper_char(s[i])], 1, Len(s))

\* s[i:].startswith(sub), i counted from 1
match_at(s, sub, i) ==
    /\ i + Len(sub) - 1 <= Len(s)
    /\ \A k \in 1..Len(sub) : s[i + k - 1] = sub[k]

\* sub in s
contains(s, sub) == \E i \in 1..(Len(s) + 1) : match_at(s, sub, i)

\* s.startswith(sub)
startswith(s, sub) == match_at(s, sub, 1)

\* s.find(sub, i): the first place at or after i where sub occurs, 0 if none
find_from_index(s, sub, i) ==
    LET hits == {j \in i..(Len(s) + 1) : match_at(s, sub, j)}
    IN  IF hits = {} THEN 0 ELSE CHOOSE j \in hits : \A h \in hits : j <= h

\* s.replace(old, new): the occurrences of old, found left to right and not
\* overlapping, each replaced by new (old is never empty here)
RECURSIVE replace_from(_, _, _, _)
replace_from(s, old, new, i) ==
    LET j == find_from_index(s, old, i)
    IN  IF j = 0 THEN SubSeq(s, i, Len(s))
        ELSE SubSeq(s, i, j - 1) \o new
                 \o replace_from(s, old, new, j + Len(old))

replace(s, old, new) == replace_from(s, old, new, 1)

\* s.strip()
strip(s) ==
    LET keep == {i \in DOMAIN s : s[i] \notin whitespace}
    IN  IF keep = {} THEN <<>>
        ELSE LET lo == CHOOSE i \in keep : \A j \in keep : i <= j
                 hi == CHOOSE i \in keep : \A j \in keep : j <= i
             IN  SubSeq(s, lo, hi)

\* the characters the regular expression \w matches
word_chars == uppercase_letters \cup lowercase_letters \cup digits \cup {"_"}

\* c is in the class cls (member = TRUE) or outside it (member = FALSE)
in_class(c, cls, member) == (c \in cls) <=> member

\* the maximal runs of characters of s in (or outside) the class, as the set
\* of <<first, last>> index pairs
runs(s, cls, member) ==
    LET starts == {a \in DOMAIN s :
                      /\ in_class(s[a], cls, member)
                      /\ (a = 1 \/ ~in_class(s[a - 1], cls, member))}
        ends == {b \in DOMAIN s :
                    /\ in_class(s[b], cls, member)
                    /\ (b = Len(s) \/ ~in_class(s[b + 1], cls, member))}
    IN  {<<a, CHOOSE b \in ends :
                  b >= a /\ \A c \in ends : c >= a => b <= c>> : a \in starts}

\* set(re.findall(r'\b\w+\b', s))
word_set(s) == {SubSeq(s, r[1], r[2]) : r \in runs(s, word_chars, TRUE)}

\* len(s.split())
split_count(s) == Cardinality(runs(s, whitespace, FALSE))

\* s.isdigit()
isdigit(s) == Len(s) > 0 /\ \A i \in DOMAIN s : s[i] \in digits

(***************************************************************************)
(* Python's float: an IEEE-754 binary64.  A non-negative float x is held   *)
(* as the natural number x * 2^60, written in base 2^15 with the least     *)
(* significant digit first and no leading zero digits (0.0 is <<>>);       *)
(* every float from 0.01 up is a whole multiple of 2^-60.  Sums and        *)
(* products are formed exactly and then rounded to 53 significant bits,    *)
(* ties to even, as the hardware does.                                     *)
(***************************************************************************)
\* a numeral without its leading zero digits
trim(ds) ==
    LET nz == {i \in DOMAIN ds : ds[i] # 0}
    IN  IF nz = {} THEN <<>>
        ELSE SubSeq(ds, 1, CHOOSE i \in nz : \A j \in nz : j <= i)

digit(ds, i) == IF i \in DOMAIN ds THEN ds[i] ELSE 0

\* the exact sum a + n * b of two numerals, from digit i on with a carry
RECURSIVE nat_add_from(_, _, _, _, _, _)
nat_add_from(a, b, n, i, carry, acc) ==
    IF Len(acc) = i - 1 /\ i > Len(a) /\ i > Len(b)
    THEN (IF carry > 0 THEN Append(acc, carry) ELSE acc)
    ELSE LET t == digit(a, i) + n * digit(b, i) + carry
         IN  nat_add_from(a, b, n, i + 1, t \div 32768,
                          Append(acc, t % 32768))

nat_add(a, b) == trim(nat_add_from(a, b, 1, 1, 0, <<>>))

\* the exact product of a numeral and a natural number below 2^15
nat_mul(a, n) == trim(nat_add_from(<<>>, a, n, 1, 0, <<>>))

\* the number of bits of a numeral
bit_length(ds) ==
    IF ds = <<>> THEN 0
    ELSE 15 * (Len(ds) - 1)
         + (CHOOSE n \in 1..15 :
                2^(n - 1) <= ds[Len(ds)] /\ ds[Len(ds)] < 2^n)

\* bit i of a numeral, bit 0 being the least significant
bit_at(ds, i) == (digit(ds, (i \div 15) + 1) \div 2^(i % 15)) % 2

\* a numeral with its n lowest bits cleared
clear_low(ds, n) ==
    [j \in DOMAIN ds |->
        IF j <= n \div 15 THEN 0
        ELSE IF j = (n \div 15) + 1
             THEN (ds[j] \div 2^(n % 15)) * 2^(n % 15)
             ELSE ds[j]]

\* the numeral of 2^n
power_of_two(n) ==
    [j \in 1..((n \div 15) + 1) |->
        IF j = (n \div 15) + 1 THEN 2^(n % 15) ELSE 0]

\* a numeral rounded to 53 significant bits, ties to even; sticky tells that
\* the exact value is a little above the numeral
round53(ds, sticky) ==
    IF bit_length(ds) <= 53 THEN ds
    ELSE LET shift == bit_length(ds) - 53
             kept == clear_low(ds, shift)
             low == clear_low(ds, shift - 1) # ds
             up == /\ bit_at(ds, shift - 1) = 1
                   /\ (low \/ sticky \/ bit_at(ds, shift) = 1)
         IN  IF up THEN nat_add(kept, power_of_two(shift)) ELSE trim(kept)

\* x + y
float_add(x, y) == round53(nat_add(x, y), FALSE)

\* x * n for an int n (float(n) is exact)
float_mul(x, n) == round53(nat_mul(x, n), FALSE)

\* the quotient and the remainder of a numeral by 100, from digit i down
RECURSIVE divide_from(_, _, _, _)
divide_from(ds, i, remainder, quotient) ==
    IF Len(quotient) >= 0 /\ i = 0 THEN <<trim(quotient), remainder>>
    ELSE LET t == remainder * 32768 + ds[i]
         IN  divide_from(ds, i - 1, t % 100, <<t \div 100>> \o quotient)

\* float("k/100") for k below 2^15: the float nearest to the decimal with k
\* hundredths, k * 2^60 / 100 rounded
float_of(k) ==
    LET d == divide_from(<<0, 0, 0, 0, k>>, 5, 0, <<>>)
    IN  round53(d[1], d[2] # 0)

\* 0.0
float_zero == float_of(0)

decimal_digits == <<"0", "1", "2", "3", "4", "5", "6", "7", "8", "9">>

\* str(n) of a natural number
RECURSIVE decimal(_)
decimal(n) ==
    IF n < 10 THEN <<decimal_digits[n + 1]>>
    ELSE Append(decimal(n \div 10), decimal_digits[(n % 10) + 1])

\* the integer nearest to 10 * x, a tie going to the even one (x < 2^26)
tenths(x) ==
    LET ds == nat_mul(x, 10)
        whole == digit(ds, 5) + (2^15) * digit(ds, 6)
        top == digit(ds, 4)
        low == digit(ds, 1) + digit(ds, 2) + digit(ds, 3)
        up == \/ top > 2^14
              \/ top = 2^14 /\ (low > 0 \/ whole % 2 = 1)
    IN  whole + (IF up THEN 1 ELSE 0)

\* f"{x:.1f}"
format_1f(x) ==
    LET n == tenths(x)
    IN  decimal(n \div 10) \o <<".">> \o decimal(n % 10)

(***************************************************************************)
(* clean_pacs_text                                                         *)
(***************************************************************************)
\* the replacements dict, in insertion order
replacements ==
    << <<<<"C", "R", " ">>, <<"X", "R", " ">>>>,
       <<<<"C", "R", "\t">>, <<"X", "R", " ">>>>,
       <<<<"R", "F", " ">>, <<"F", "L", " ">>>>,
       <<<<"R", "F", "\t">>, <<"F", "L", " ">>>>,
       <<<<"X", "A", " ">>, <<"A", "N", "G", "I", "O", " ">>>>,
       <<<<"X", "A", "\t">>, <<"A", "N", "G", "I", "O", " ">>>>,
       <<<<"B", "D", " ">>, <<"D", "X", "A", " ">>>>,
       <<<<"B", "D", "\t">>, <<"D", "X", "A", " ">>>>,
       <<<<"P", "T", " ">>, <<"P", "E", "T", " ">>>>,
       <<<<"P", "T", "\t">>, <<"P", "E", "T", " ">>>>,
       <<<<"M", "R", " ">>, <<"M", "R", "I", " ">>>>,
       <<<<"M", "R", "\t">>, <<"M", "R", "I", " ">>>>,
       <<<<"D", "A", "N", "G", "I", "O">>, <<"D", "X", "A">>>>,
       <<<<"M", "R", "I", "H", "I", "P">>, <<"M", "R", "I", " ", "H", "I", "P">>>>,
       <<<<"\t">>, <<" ">>>>,
       <<<<"_">>, <<" ">>>>,
       <<<<"EM">>, <<" ">>>>,
       <<<<"-">>, <<" ">>>>,
       <<<<" ", " ">>, <<" ">>>>,
       <<<<" ", " ", " ">>, <<" ">>>> >>

\* for old, new in replacements.items(): text = text.replace(old, new)
RECURSIVE apply_replacements(_, _)
apply_replacements(s, k) ==
    IF k > Len(replacements) THEN s
    ELSE IF contains(s, replacements[k][1])
         THEN apply_replacements(
                  replace(s, replacements[k][1], replacements[k][2]), k + 1)
         ELSE apply_replacements(s, k + 1)

\* while '  ' in text: text = text.replace('  ', ' ')
RECURSIVE collapse_spaces(_)
collapse_spaces(s) ==
    IF contains(s, <<" ", " ">>)
    THEN collapse_spaces(replace(s, <<" ", " ">>, <<" ">>))
    ELSE s

clean_pacs_text(s) ==
    strip(collapse_spaces(apply_replacements(upper(s), 1)))

(***************************************************************************)
(* reconstruct_procedure_lines: the reconstructor                          *)
(***************************************************************************)
\* the characters at which str.splitlines breaks a text
linebreaks == {"\n", "\r"}

\* the first <<first, last>> pair, in text order, of a non-empty set of runs
first_run(rs) == CHOOSE r \in rs : \A q \in rs : r[1] <= q[1]

\* the runs of a set as a sequence, in text order
RECURSIVE ordered_runs(_)
ordered_runs(rs) ==
    IF rs = {} THEN <<>>
    ELSE <<first_run(rs)>> \o ordered_runs(rs \ {first_run(rs)})

\* [line.strip() for line in text.splitlines() if line.strip()]
stripped_lines(s) ==
    LET rs == ordered_runs(runs(s, linebreaks, FALSE))
        all == [i \in DOMAIN rs |-> strip(SubSeq(s, rs[i][1], rs[i][2]))]
    IN  SelectSeq(all, LAMBDA ln : ln # <<>>)

\* re.search(r'\d{1,2}-\w{3}-\d{4}', ln), a match starting at index i: one
\* digit before the first hyphen is enough for a search
date_at(ln, i) ==
    /\ i + 9 <= Len(ln)
    /\ ln[i] \in digits
    /\ ln[i + 1] = "-"
    /\ \A j \in (i + 2)..(i + 4) : ln[j] \in word_chars
    /\ ln[i + 5] = "-"
    /\ \A j \in (i + 6)..(i + 9) : ln[j] \in digits

is_date(ln) == \E i \in DOMAIN ln : date_at(ln, i)

\* the alternatives of the modality-prefix pattern
modality_prefixes ==
    { <<"U", "S">>,
      <<"C", "T">>,
      <<"M", "R">>,
      <<"X", "R">>,
      <<"C", "R">>,
      <<"R", "F">>,
      <<"F", "L">>,
      <<"P", "T">>,
      <<"P", "E", "T">>,
      <<"B", "D">>,
      <<"D", "X", "A">>,
      <<"N", "M">>,
      <<"I", "R">> }

\* re.match(r'^(US|CT|MR|XR|CR|RF|FL|PT|PET|BD|DXA|NM|IR)', ln.upper())
has_modality_prefix(ln) ==
    \E p \in modality_prefixes : startswith(upper(ln), p)

\* the branch of the loop body a raw line takes
line_kind(ln) ==
    IF Len(ln) < 3 THEN "short"
    ELSE IF is_date(ln) THEN "date"
    ELSE IF isdigit(ln) THEN "digits"
    ELSE IF has_modality_prefix(ln) THEN "modality"
    ELSE "continuation"

\* the loop body with "current_procedure = ''" missing from the date branch
reconstruct_step_date_keeps_current(st, ln) ==
    LET kind == line_kind(ln)
        cur == st.current_procedure
        out == st.reconstructed_lines
    IN  CASE kind = "short" -> st
          [] kind = "date" ->
                IF cur # <<>>
                THEN [current_procedure |-> cur,
                      reconstructed_lines |-> Append(out, cur \o <<" ">> \o ln)]
                ELSE st
          [] kind = "digits" -> st
          [] kind = "modality" ->
                [current_procedure |-> ln,
                 reconstructed_lines |->
                     IF cur # <<>> THEN Append(out, cur) ELSE out]
          [] kind = "continuation" ->
                [current_procedure |->
                     IF cur # <<>> THEN cur \o <<" ">> \o ln ELSE ln,
                 reconstructed_lines |-> out]

\* one pass of the loop body over the raw line ln; st holds
\* current_procedure and reconstructed_lines
reconstruct_step(st, ln) ==
    LET kind == line_kind(ln)
        cur == st.current_procedure
        out == st.reconstructed_lines
    IN  CASE kind = "short" -> st
          [] kind = "date" ->
                IF cur # <<>>
                THEN [current_procedure |-> <<>>,
                      reconstructed_lines |-> Append(out, cur \o <<" ">> \o ln)]
                ELSE st
          [] kind = "digits" -> st
          [] kind = "modality" ->
                [current_procedure |-> ln,
                 reconstructed_lines |->
                     IF cur # <<>> THEN Append(out, cur) ELSE out]
          [] kind = "continuation" ->
                [current_procedure |->
                     IF cur # <<>> THEN cur \o <<" ">> \o ln ELSE ln,
                 reconstructed_lines |-> out]

\* the end of the function without "if current_procedure": the entry being
\* assembled is appended even when it is empty
reconstruct_flush_always(st) ==
    Append(st.reconstructed_lines, st.current_procedure)

\* after the loop: the last procedure is appended
reconstruct_flush(st) ==
    IF st.current_procedure # <<>>
    THEN Append(st.reconstructed_lines, st.current_procedure)
    ELSE st.reconstructed_lines

\* the loop over the raw lines, from the k-th on
RECURSIVE reconstruct_from(_, _, _)
reconstruct_from(lns, k, st) ==
    IF k > Len(lns) THEN st
    ELSE reconstruct_from(lns, k + 1, reconstruct_step(st, lns[k]))

reconstruct_procedure_lines(s) ==
    reconstruct_flush(
        reconstruct_from(stripped_lines(s), 1,
            [current_procedure |-> <<>>, reconstructed_lines |-> <<>>]))

(***************************************************************************)
(* fuzzy_match: the acceptance test                                        *)
(***************************************************************************)
\* modality_mapping, in insertion order: <<modality, variants>>
modality_mapping ==
    << <<<<"X", "R">>, <<<<"X", "R">>>>>>,
       <<<<"C", "T">>, <<<<"C", "T">>>>>>,
       <<<<"M", "R", "I">>, <<<<"M", "R", "I">>, <<"M", "R">>>>>>,
       <<<<"U", "S">>, <<<<"U", "S">>>>>>,
       <<<<"F", "L">>, <<<<"F", "L">>>>>>,
       <<<<"P", "E", "T">>, <<<<"P", "E", "T">>>>>>,
       <<<<"D", "X", "A">>, <<<<"D", "X", "A">>>>>>,
       <<<<"N", "M">>, <<<<"N", "M">>>>>> >>

anatomy_words ==
    { <<"C", "H", "E", "S", "T">>,
      <<"A", "B", "D", "O", "M", "E", "N">>,
      <<"P", "E", "L", "V", "I", "S">>,
      <<"H", "E", "A", "D">>,
      <<"B", "R", "A", "I", "N">>,
      <<"S", "P", "I", "N", "E">>,
      <<"L", "U", "M", "B", "A", "R">>,
      <<"C", "E", "R", "V", "I", "C", "A", "L">>,
      <<"T", "H", "O", "R", "A", "C", "I", "C">>,
      <<"K", "N", "E", "E">>,
      <<"A", "N", "K", "L", "E">>,
      <<"S", "H", "O", "U", "L", "D", "E", "R">>,
      <<"E", "L", "B", "O", "W">>,
      <<"H", "I", "P">>,
      <<"F", "O", "O", "T">>,
      <<"H", "A", "N", "D">>,
      <<"W", "R", "I", "S", "T">>,
      <<"N", "E", "C", "K">>,
      <<"O", "R", "B", "I", "T">> }

common_words ==
    { <<"A", "N", "D">>,
      <<"O", "R">>,
      <<"T", "H", "E">>,
      <<"O", "F">>,
      <<"I", "N">>,
      <<"O", "N">>,
      <<"A", "T">>,
      <<"T", "O">>,
      <<"F", "O", "R">>,
      <<"V", "I", "E", "W">>,
      <<"V", "I", "E", "W", "S">> }

W_WITH == <<"W", "I", "T", "H">>
W_WITHOUT == <<"W", "I", "T", "H", "O", "U", "T">>
W_WO == <<"W", "O">>

\* the loop over modality_mapping.items(): every entry with a variant among
\* the words assigns the modality, so the last such entry stays
resolve_modality(words) ==
    LET hits == {k \in DOMAIN modality_mapping :
                    \E v \in Range(modality_mapping[k][2]) : v \in words}
    IN  IF hits = {} THEN None
        ELSE modality_mapping[CHOOSE k \in hits : \A j \in hits : j <= k][1]

\* the modality test weakened to sharing a modality token: it passes as soon
\* as the modality of the name is among those named in the line
modality_gate_shared_token(proc_words, line_words) ==
    LET proc_modality == resolve_modality(proc_words)
        line_modality == resolve_modality(line_words)
        line_modalities ==
            {modality_mapping[k][1] : k \in {j \in DOMAIN modality_mapping :
                \E v \in Range(modality_mapping[j][2]) : v \in line_words}}
    IN  ~(/\ proc_modality # None
          /\ line_modality # None
          /\ proc_modality \notin line_modalities)

\* STRICT RULE 1 passes
modality_gate(proc_words, line_words) ==
    LET proc_modality == resolve_modality(proc_words)
        line_modality == resolve_modality(line_words)
    IN  ~(/\ proc_modality # None
          /\ line_modality # None
          /\ proc_modality # line_modality)

\* the anatomy test weakened to sharing one anatomy term
anatomy_gate_shared_term(proc_words, line_words) ==
    LET proc_anatomy == proc_words \cap anatomy_words
        line_anatomy == line_words \cap anatomy_words
    IN  ~(proc_anatomy # {} /\ proc_anatomy \cap line_anatomy = {})

\* STRICT RULE 2 passes
\* the anatomy test weakened to containment instead of equality
anatomy_gate_overlap(proc_words, line_words) ==
    LET proc_anatomy == proc_words \cap anatomy_words
        line_anatomy == line_words \cap anatomy_words
    IN  ~(proc_anatomy # {} /\ ~(proc_anatomy \subseteq line_anatomy))

anatomy_gate(proc_words, line_words) ==
    LET proc_anatomy == proc_words \cap anatomy_words
        line_anatomy == line_words \cap anatomy_words
    IN  ~(proc_anatomy # {} /\ proc_anatomy # line_anatomy)

\* the contrast-status set without the abbreviation WO
contrast_of_no_abbreviation(words) ==
    (IF W_WITH \in words THEN {"WITH"} ELSE {})
    \cup (IF W_WITHOUT \in words THEN {"WITHOUT"} ELSE {})

\* the contrast-status set of a word set
contrast_of(words) ==
    (IF W_WITH \in words THEN {"WITH"} ELSE {})
    \cup (IF W_WITHOUT \in words \/ W_WO \in words THEN {"WITHOUT"} ELSE {})

\* STRICT RULE 3 passes
contrast_gate(proc_words, line_words) ==
    LET proc_contrast == contrast_of(proc_words)
        line_contrast == contrast_of(line_words)
    IN  ~(/\ proc_contrast # {}
          /\ line_contrast # {}
          /\ proc_contrast \cap line_contrast = {})

\* the coverage test with a threshold of one half
coverage_gate_half(proc_words, line_words) ==
    LET significant_proc_words == proc_words \ common_words
        significant_line_words == line_words \ common_words
        matches == Cardinality(significant_proc_words \cap significant_line_words)
    IN  ~(/\ Cardinality(significant_proc_words) > 0
          /\ 2 * matches < Cardinality(significant_proc_words))

\* STRICT RULE 4 passes.  matches / len < 0.9 is decided in integers: for
\* word counts this small the rounded quotient lies below the rounded 0.9
\* exactly when 10 * matches < 9 * len.
coverage_gate(proc_words, line_words) ==
    LET significant_proc_words == proc_words \ common_words
        significant_line_words == line_words \ common_words
        matches == Cardinality(significant_proc_words \cap significant_line_words)
    IN  ~(/\ Cardinality(significant_proc_words) > 0
          /\ 10 * matches < 9 * Cardinality(significant_proc_words))

\* the four rules, after the substring test has failed
gates(proc_upper, line_upper) ==
    LET proc_words == word_set(proc_upper)
        line_words == word_set(line_upper)
    IN  /\ modality_gate(proc_words, line_words)
        /\ anatomy_gate(proc_words, line_words)
        /\ contrast_gate(proc_words, line_words)
        /\ coverage_gate(proc_words, line_words)

\* fuzzy_match without the substring shortcut
fuzzy_match_gates_only(name, ln) ==
    gates(strip(upper(name)), strip(upper(ln)))

fuzzy_match(name, ln) ==
    LET proc_upper == strip(upper(name))
        line_upper == strip(upper(ln))
    IN  IF contains(line_upper, proc_upper) THEN TRUE
        ELSE gates(proc_upper, line_upper)

(***************************************************************************)
(* try_generic_match and the generic weights                               *)
(***************************************************************************)
\* modality_patterns, in insertion order: <<modality, patterns>>
modality_patterns ==
    << <<<<"C", "T">>,
         <<<<"C", "T", " ">>,
           <<"C", "O", "M", "P", "U", "T", "E", "D">>>>>>,
       <<<<"M", "R", "I">>,
         <<<<"M", "R", "I", " ">>,
           <<"M", "R", " ">>,
           <<"M", "A", "G", "N", "E", "T", "I", "C">>>>>>,
       <<<<"U", "S">>,
         <<<<"U", "S", " ">>,
           <<"U", "L", "T", "R", "A", "S", "O", "U", "N", "D">>,
           <<"E", "C", "H", "O">>,
           <<"V", "A", "S", "C", "U", "L", "A", "R">>,
           <<"D", "U", "P", "L", "E", "X">>>>>>,
       <<<<"X", "R">>,
         <<<<"X", "R", " ">>,
           <<"R", "A", "D", "I", "O", "G", "R", "A", "P", "H">>>>>>,
       <<<<"M", "A", "M", "M", "O", "G", "R", "A", "P", "H", "Y">>,
         <<<<"M", "A", "M", "M", "O">>,
           <<"B", "R", "E", "A", "S", "T">>,
           <<"M", "G", " ">>>>>>,
       <<<<"P", "E", "T">>,
         <<<<"P", "E", "T">>,
           <<"P", "O", "S", "I", "T", "R", "O", "N">>>>>>,
       <<<<"N", "M">>,
         <<<<"N", "M", " ">>,
           <<"N", "U", "C", "L", "E", "A", "R">>,
           <<"B", "O", "N", "E", " ", "S", "C", "A", "N">>,
           <<"S", "P", "E", "C", "T">>,
           <<"L", "U", "N", "G", " ", "S", "C", "A", "N">>,
           <<"L", "I", "V", "E", "R", " ", "S", "C", "A", "N">>>>>>,
       <<<<"F", "L">>,
         <<<<"F", "L", " ">>,
           <<"F", "L", "U", "O", "R", "O">>,
           <<"F", "L", "U", "O", "R", "O", "S", "C", "O", "P", "Y">>,
           <<"E", "S", "O", "P", "H", "A", "G", "R", "A", "M">>,
           <<"B", "A", "R", "I", "U", "M">>,
           <<"U", "P", "P", "E", "R", " ", "G", "I">>,
           <<"R", "E", "T", "R", "O", "G", "R", "A", "D", "E">>>>>>,
       <<<<"A", "N", "G", "I", "O">>,
         <<<<"A", "N", "G", "I", "O">>,
           <<"A", "N", "G", "I", "O", "G", "R", "A", "M">>,
           <<"A", "N", "G", "I", "O", "G", "R", "A", "P", "H", "Y">>>>>>,
       <<<<"D", "X", "A">>,
         <<<<"D", "X", "A">>,
           <<"B", "O", "N", "E", " ", "D", "E", "N", "S", "I", "T", "Y">>,
           <<"D", "E", "X", "A">>>>>>,
       <<<<"I", "R">>,
         <<<<"I", "R", " ">>,
           <<"E", "M", "B", "O", "L", "I", "Z", "A", "T", "I", "O", "N">>,
           <<"K", "Y", "P", "H", "O", "P", "L", "A", "S", "T", "Y">>>>>>,
       <<<<"P", "R", "O", "C", "E", "D", "U", "R", "E">>,
         <<<<"T", "H", "O", "R", "A", "C", "E", "N", "T", "E", "S", "I", "S">>,
           <<"P", "A", "R", "A", "C", "E", "N", "T", "E", "S", "I", "S">>>>>> >>

\* the first modality one of whose patterns occurs in the line, or None
\* try_generic_match keeping the last modality that has a pattern in the line
try_generic_match_last(ln) ==
    LET line_upper == upper(ln)
        hits == {k \in DOMAIN modality_patterns :
                    \E p \in Range(modality_patterns[k][2]) :
                        contains(line_upper, p)}
    IN  IF hits = {} THEN None
        ELSE modality_patterns[CHOOSE k \in hits : \A j \in hits : k >= j][1]

\* try_generic_match returning the pattern list's first pattern instead of
\* the modality
try_generic_match_pattern(ln) ==
    LET line_upper == upper(ln)
        hits == {k \in DOMAIN modality_patterns :
                    \E p \in Range(modality_patterns[k][2]) :
                        contains(line_upper, p)}
    IN  IF hits = {} THEN None
        ELSE modality_patterns[CHOOSE k \in hits : \A j \in hits : k <= j][2][1]

try_generic_match(ln) ==
    LET line_upper == upper(ln)
        hits == {k \in DOMAIN modality_patterns :
                    \E p \in Range(modality_patterns[k][2]) :
                        contains(line_upper, p)}
    IN  IF hits = {} THEN None
        ELSE modality_patterns[CHOOSE k \in hits : \A j \in hits : k <= j][1]

\* the literals of setup_generic_values, in insertion order: <<modality,
\* weight in hundredths>>
generic_values ==
    << <<<<"C", "T">>, 133>>,
       <<<<"M", "R", "I">>, 180>>,
       <<<<"X", "R">>, 25>>,
       <<<<"U", "S">>, 67>>,
       <<<<"M", "A", "M", "M", "O", "G", "R", "A", "P", "H", "Y">>, 70>>,
       <<<<"M", "G">>, 70>>,
       <<<<"P", "E", "T">>, 400>>,
       <<<<"N", "M">>, 85>>,
       <<<<"F", "L">>, 85>>,
       <<<<"A", "N", "G", "I", "O">>, 150>>,
       <<<<"D", "X", "A">>, 32>>,
       <<<<"I", "R">>, 250>>,
       <<<<"P", "R", "O", "C", "E", "D", "U", "R", "E">>, 100>>,
       <<<<"O", "T", "H", "E", "R">>, 100>> >>

\* generic_wrvus, in insertion order: <<modality, weight>>
generic_wrvus ==
    [i \in DOMAIN generic_values |->
        <<generic_values[i][1], float_of(generic_values[i][2])>>]

\* the keys of a dict
keys(d) == {d[i][1] : i \in DOMAIN d}

\* d.get(key, default)
dict_get(d, key, default) ==
    IF key \in keys(d)
    THEN d[CHOOSE i \in DOMAIN d : d[i][1] = key][2]
    ELSE default

S_GENERIC == <<"G", "E", "N", "E", "R", "I", "C">>
S_GENERIC_SP == <<"G", "E", "N", "E", "R", "I", "C", " ">>

\* f"GENERIC {generic_modality}"
generic_identity(modality) == S_GENERIC_SP \o modality

(***************************************************************************)
(* Inputs.  Every specification draws its inputs in Init from the sets     *)
(* below and then applies the program's operations to them.                *)
(***************************************************************************)
\* all sequences over S of length lo..hi
SeqsOf(S, lo, hi) == UNION {[1..n -> S] : n \in lo..hi}

\* the sequences of SeqsOf without a repeated element
InjectiveSeqsOf(S, lo, hi) ==
    {q \in SeqsOf(S, lo, hi) : \A i, j \in DOMAIN q : q[i] = q[j] => i = j}

\* the concatenation of a sequence of strings, joined by sep
RECURSIVE join(_, _)
join(parts, sep) ==
    IF Len(parts) = 0 THEN <<>>
    ELSE IF Len(parts) = 1 THEN parts[1]
    ELSE parts[1] \o sep \o join(Tail(parts), sep)

MaxCatalog == 2
MaxLines == 2
MaxPieces == 3
MaxWords == 3
MaxGenericWords == 3
MaxRawLines == 3

\* Catalog rows: name, CPT code, wRVU in hundredths.  The first four are
\* entries of the built-in catalog (wrvu_simple_backup.py lines 34, 35, 47,
\* 48); the last two are rows a CSV catalog can hold: well-formed rows whose
\* names start with GENERIC.  Every name is what setup_database stores:
\* upper-case, stripped, and with at least one word.
CatalogRows ==
    { << <<"U", "S", " ", "R", "E", "N", "A", "L", " ", "K", "I", "D", "N", "E", "Y">>,
         "76770", 58 >>,
      << <<"U", "S", " ", "R", "E", "N", "A", "L">>,
         "76770", 58 >>,
      << <<"U", "S", " ", "A", "B", "D", "O", "M", "E", "N", " ", "L", "I", "M", "I", "T", "E", "D">>,
         "76705", 59 >>,
      << <<"U", "S", " ", "L", "I", "M", "I", "T", "E", "D", " ", "A", "B", "D", "O", "M", "E", "N">>,
         "76705", 59 >>,
      << <<"G", "E", "N", "E", "R", "I", "C", " ", "C", "T">>,
         "70450", 500 >>,
      << <<"G", "E", "N", "E", "R", "I", "C">>,
         "76499", 50 >> }

\* the entries setup_database makes of the rows: name -> {"cpt", "wrvu"}
CatalogPool ==
    {<<row[1], [cpt |-> row[2], wrvu |-> float_of(row[3])]>> :
        row \in CatalogRows}

\* the catalogs: dicts with distinct, non-empty names and at least one entry
\* (setup_database stores only rows that have a name, and exits on an empty
\* catalog)
Catalogs ==
    {db \in InjectiveSeqsOf(CatalogPool, 1, MaxCatalog) :
        \A i, j \in DOMAIN db : db[i][1] = db[j][1] => i = j}

\* reconstructed lines handed to the matcher
LinePool ==
    { <<"U", "S", " ", "L", "I", "M", "I", "T", "E", "D", " ", "A", "B", "D", "O", "M", "E", "N">>,
      <<"U", "S", " ", "R", "E", "N", "A", "L", " ", "K", "I", "D", "N", "E", "Y">>,
      <<"G", "E", "N", "E", "R", "I", "C", " ", "C", "T">>,
      <<"M", "R", "-", "K", "N", "E", "E">>,
      <<"m", "a", "m", "m", "o">>,
      <<"H", "E", "L", "L", "O">>,
      <<"C", "T">> }

SourceFile == "image1.png"

\* pieces of raw text for the normalizer: alias codes, letters that make a
\* longer word of them, and the separators the table rewrites
PiecePool ==
    { <<"C", "R">>, <<"M", "R">>, <<"X", "A">>, <<"D">>, <<"S">>, <<"x">>,
      <<" ">>, <<"\t">>, <<"-">>, <<"_">>, <<"EM">> }

TextInputs == {join(q, <<>>) : q \in SeqsOf(PiecePool, 0, MaxPieces)}

\* catalog names and lines for the acceptance test
\* Scenario B of the specification: two catalog names and the line they are
\* tried on
S_KNEE_VIEWS == <<"X", "R", " ", "K", "N", "E", "E", " ", "M", "I", "N", "I", "M", "U", "M", " ", "2", " ", "V", "I", "E", "W", "S">>
S_HIP_VIEWS == <<"X", "R", " ", "H", "I", "P", " ", "2", " ", "O", "R", " ", "3", " ", "V", "I", "E", "W", "S">>
S_KNEE_LINE == <<"X", "R", " ", "K", "N", "E", "E", " ", "2", " ", "V", "I", "E", "W", "S", " ", "R", "I", "G", "H", "T">>

\* a name of ten significant words, and lines that differ from it in one word
S_CT_RUNOFF == <<"C", "T", " ", "A", "N", "G", "I", "O", " ", "C", "H", "E", "S", "T", " ", "A", "B", "D", "O", "M", "E", "N", " ", "P", "E", "L", "V", "I", "S", " ", "W", "I", "T", "H", " ", "C", "O", "N", "T", "R", "A", "S", "T", " ", "R", "U", "N", "O", "F", "F", " ", "B", "I", "L", "A", "T", "E", "R", "A", "L", " ", "L", "O", "W", "E", "R">>
S_CT_RUNOFF_WO == <<"C", "T", " ", "A", "N", "G", "I", "O", " ", "C", "H", "E", "S", "T", " ", "A", "B", "D", "O", "M", "E", "N", " ", "P", "E", "L", "V", "I", "S", " ", "W", "O", " ", "C", "O", "N", "T", "R", "A", "S", "T", " ", "R", "U", "N", "O", "F", "F", " ", "B", "I", "L", "A", "T", "E", "R", "A", "L", " ", "L", "O", "W", "E", "R">>
S_CT_RUNOFF_NO_LOWER == <<"C", "T", " ", "A", "N", "G", "I", "O", " ", "C", "H", "E", "S", "T", " ", "A", "B", "D", "O", "M", "E", "N", " ", "P", "E", "L", "V", "I", "S", " ", "W", "I", "T", "H", " ", "C", "O", "N", "T", "R", "A", "S", "T", " ", "R", "U", "N", "O", "F", "F", " ", "B", "I", "L", "A", "T", "E", "R", "A", "L">>
S_MR_RUNOFF == <<"M", "R", " ", "A", "N", "G", "I", "O", " ", "C", "H", "E", "S", "T", " ", "A", "B", "D", "O", "M", "E", "N", " ", "P", "E", "L", "V", "I", "S", " ", "W", "I", "T", "H", " ", "C", "O", "N", "T", "R", "A", "S", "T", " ", "R", "U", "N", "O", "F", "F", " ", "B", "I", "L", "A", "T", "E", "R", "A", "L", " ", "L", "O", "W", "E", "R">>

AcceptNames ==
    { <<"X", "R", " ", "K", "N", "E", "E">>,
      <<"X", "R", " ", "H", "I", "P", " ", "K", "N", "E", "E">>,
      <<"K", "N", "E", "E", " ", "V", "I", "E", "W", "S">>,
      <<"M", "R", "I", " ", "K", "N", "E", "E", " ", "W", "I", "T", "H">>,
      <<"X", "R", " ", "H", "I", "P">>,
      S_KNEE_VIEWS,
      S_HIP_VIEWS,
      S_CT_RUNOFF }

WordPool ==
    { <<"X", "R">>, <<"M", "R", "I">>, <<"M", "R">>, <<"K", "N", "E", "E">>,
      <<"H", "I", "P">>, <<"W", "I", "T", "H">>, <<"W", "O">>,
      <<"V", "I", "E", "W", "S">> }

AcceptLines ==
    {join(q, <<" ">>) : q \in SeqsOf(WordPool, 1, MaxWords)}
    \cup {S_KNEE_LINE, S_CT_RUNOFF_WO, S_CT_RUNOFF_NO_LOWER, S_MR_RUNOFF}

\* try_generic_match is asked about lines of 1..MaxGenericWords of these words
GenericWordPool ==
    { <<"C", "T">>,
      <<"M", "R", "I">>,
      <<"U", "L", "T", "R", "A", "S", "O", "U", "N", "D">>,
      <<"G", "A", "L", "L", "B", "L", "A", "D", "D", "E", "R">>,
      <<"m", "a", "m", "m", "o">>,
      <<"P", "E", "T">>,
      <<"H", "E", "A", "D">> }

GenericLines ==
    {join(q, <<" ">>) : q \in SeqsOf(GenericWordPool, 1, MaxGenericWords)}

\* the reconstructor is given texts of 0..MaxRawLines of these lines, each
\* ended by a line feed
RawLinePool ==
    { <<"C", "T", " ", "C", "H", "E", "S", "T">>,
      <<"W", "I", "T", "H", " ", "C", "O", "N", "T", "R", "A", "S", "T">>,
      <<"0", "1", "-", "J", "A", "N", "-", "2", "0", "2", "4">>,
      <<"M", "R", " ", "K", "N", "E", "E", " ", "0", "2", "-", "F", "E", "B", "-", "2", "0", "2", "4">>,
      <<"1", "2", "3">>,
      <<"U", "S">>,
      <<" ">>,
      <<"k", "n", "e", "e">> }

RawTexts ==
    {join([i \in DOMAIN q |-> q[i] \o <<"\n">>], <<>>) :
        q \in SeqsOf(RawLinePool, 0, MaxRawLines)}

\* The catalog of a calculation run: an entry of the built-in catalog
\* (wrvu_simple_backup.py line 64) and an entry a CSV catalog can hold.
RunCatalog ==
    << << <<"C", "T", " ", "C", "H", "E", "S", "T", " ", "W", "I", "T", "H", " ", "C", "O", "N", "T", "R", "A", "S", "T">>,
          [cpt |-> "71260", wrvu |-> float_of(124)] >>,
       << <<"M", "R", " ", "K", "N", "E", "E", " ", "L", "E", "F", "T">>,
          [cpt |-> "73721", wrvu |-> float_of(135)] >> >>

\* What the OCR returns for an image.
RunTextPool ==
    { <<>>,
      <<"C", "T", " ", "C", "H", "E", "S", "T", "\n", "W", "I", "T", "H", " ", "C", "O", "N", "T", "R", "A", "S", "T", "\n", "0", "1", "-", "J", "A", "N", "-", "2", "0", "2", "4", "\n">>,
      <<"M", "R", " ", "K", "N", "E", "E", "\n", "L", "E", "F", "T", "\n", "0", "1", "-", "J", "A", "N", "-", "2", "0", "2", "4", "\n">>,
      <<"C", "T", " ", "C", "H", "E", "S", "T", "\n", "0", "1", "-", "J", "A", "N", "-", "2", "0", "2", "4", "\n", "W", "I", "T", "H", " ", "C", "O", "N", "T", "R", "A", "S", "T", "\n">>,
      <<"H", "E", "L", "L", "O", " ", "W", "O", "R", "L", "D", "\n">>,
      <<"C", "T", " ", "H", "E", "A", "D", "\n", "M", "R", "I", " ", "B", "R", "A", "I", "N", "\n">>,
      <<"D", "X", "A", " ", "S", "P", "I", "N", "E", "\n">>,
      <<" ", "\n">> }

\* An image of a run: its file is gone, or the OCR raises, or the OCR
\* returns a text.
ImagePool ==
    {[kind |-> "missing", text |-> <<>>], [kind |-> "unreadable", text |-> <<>>]}
    \cup {[kind |-> "image", text |-> txt] : txt \in RunTextPool}

MaxImages == 2

(***************************************************************************)
(* The matcher's lines and names come from the finite pools above, so the  *)
(* three text functions are tabulated over the pools (a table is evaluated *)
(* once) and the matcher reads the tables; off the pools it evaluates the  *)
(* function itself.                                                        *)
(***************************************************************************)
NamePool == {row[1] : row \in CatalogRows}

clean_table == [ln \in LinePool |-> clean_pacs_text(ln)]

CleanedPool == {clean_table[ln] : ln \in LinePool}

fuzzy_table == [name \in NamePool, ln \in CleanedPool |-> fuzzy_match(name, ln)]

generic_table == [ln \in CleanedPool |-> try_generic_match(ln)]

\* self.clean_pacs_text(line)
clean_line(ln) ==
    IF ln \in LinePool THEN clean_table[ln] ELSE clean_pacs_text(ln)

\* self.fuzzy_match(proc_name, cleaned_line)
accepts(name, ln) ==
    IF name \in NamePool /\ ln \in CleanedPool
    THEN fuzzy_table[name, ln]
    ELSE fuzzy_match(name, ln)

\* self.try_generic_match(cleaned_line)
generic_of(ln) ==
    IF ln \in CleanedPool THEN generic_table[ln] ELSE try_generic_match(ln)

(***************************************************************************)
(* find_procedures_in_reconstructed_text: the matcher.  procedure_db is a  *)
(* dict name -> {"cpt", "wrvu"}: a sequence of <<name, [cpt, wrvu]>>.      *)
(***************************************************************************)
\* sorted(self.procedure_db.keys(), key=len, reverse=True): the longest name
\* first; the sort is stable, so names of one length keep their dict order
sorted_procedures(db) ==
    LET n == Len(db)
        before(i, j) ==
            \/ Len(db[i][1]) > Len(db[j][1])
            \/ (Len(db[i][1]) = Len(db[j][1]) /\ i < j)
        rank(i) == Cardinality({j \in 1..n : before(j, i)}) + 1
    IN  [r \in 1..n |-> db[CHOOSE i \in 1..n : rank(i) = r][1]]

\* the loop without the best_match_score update: the last accepted name wins
RECURSIVE best_match_from_last_wins(_, _, _, _, _)
best_match_from_last_wins(names, cleaned_line, k, best_match, score) ==
    IF k > Len(names) THEN best_match
    ELSE IF /\ accepts(names[k], cleaned_line)
            /\ split_count(names[k]) > score
         THEN best_match_from_last_wins(names, cleaned_line, k + 1,
                                        names[k], score)
         ELSE best_match_from_last_wins(names, cleaned_line, k + 1,
                                        best_match, score)

\* the loop over sorted_procedures, from its k-th name on
RECURSIVE best_match_from(_, _, _, _, _)
best_match_from(names, cleaned_line, k, best_match, best_match_score) ==
    IF k > Len(names) THEN best_match
    ELSE LET match_score == split_count(names[k])
         IN  IF /\ accepts(names[k], cleaned_line)
                /\ match_score > best_match_score
             THEN best_match_from(names, cleaned_line, k + 1,
                                  names[k], match_score)
             ELSE best_match_from(names, cleaned_line, k + 1,
                                  best_match, best_match_score)

\* best_match after the loop (None when no name was taken)
best_match_of(db, cleaned_line) ==
    best_match_from(sorted_procedures(db), cleaned_line, 1, None, 0)

\* one iteration with the generic classifier tried before the catalog
match_line_generic_first(db, ln, source_file) ==
    IF Len(ln) < 5 THEN [kind |-> "skipped"]
    ELSE LET cleaned_line == clean_line(ln)
             best_match == best_match_of(db, cleaned_line)
             generic_modality == generic_of(cleaned_line)
         IN  IF generic_modality # None
             THEN [kind |-> "generic",
                   record |-> [procedure |-> generic_identity(generic_modality),
                               original_line |-> ln,
                               cleaned_line |-> cleaned_line,
                               is_generic |-> TRUE,
                               source |-> source_file]]
             ELSE IF best_match # None
             THEN [kind |-> "matched",
                   record |-> [procedure |-> best_match,
                               original_line |-> ln,
                               cleaned_line |-> cleaned_line,
                               is_generic |-> FALSE,
                               source |-> source_file]]
             ELSE [kind |-> "unmatched", cleaned_line |-> cleaned_line]

\* one iteration of the loop over procedure_lines: what it appends
match_line(db, ln, source_file) ==
    IF Len(ln) < 5 THEN [kind |-> "skipped"]
    ELSE LET cleaned_line == clean_line(ln)
             best_match == best_match_of(db, cleaned_line)
             generic_modality == generic_of(cleaned_line)
         IN  IF best_match # None
             THEN [kind |-> "matched",
                   record |-> [procedure |-> best_match,
                               original_line |-> ln,
                               cleaned_line |-> cleaned_line,
                               is_generic |-> FALSE,
                               source |-> source_file]]
             ELSE IF generic_modality # None
             THEN [kind |-> "generic",
                   record |-> [procedure |-> generic_identity(generic_modality),
                               original_line |-> ln,
                               cleaned_line |-> cleaned_line,
                               is_generic |-> TRUE,
                               source |-> source_file]]
             ELSE [kind |-> "unmatched", cleaned_line |-> cleaned_line]

\* the loop with "matched = True" missing from the generic branch: a generic
\* match also lands in unmatched_lines
RECURSIVE find_from_generic_falls_through(_, _, _, _, _)
find_from_generic_falls_through(db, lines, source_file, k, acc) ==
    IF k > Len(lines) THEN acc
    ELSE LET out == match_line(db, lines[k], source_file)
         IN  find_from_generic_falls_through(db, lines, source_file, k + 1,
                 CASE out.kind = "skipped" -> acc
                   [] out.kind = "matched" ->
                        [acc EXCEPT !.procedures = Append(@, out.record)]
                   [] out.kind = "generic" ->
                        [acc EXCEPT !.procedures = Append(@, out.record),
                                    !.generic_lines =
                                        Append(@, out.record.cleaned_line),
                                    !.unmatched_lines =
                                        Append(@, out.record.cleaned_line)]
                   [] out.kind = "unmatched" ->
                        [acc EXCEPT !.unmatched_lines =
                                        Append(@, out.cleaned_line)])

RECURSIVE find_from(_, _, _, _, _)
find_from(db, lines, source_file, k, acc) ==
    IF k > Len(lines) THEN acc
    ELSE LET out == match_line(db, lines[k], source_file)
         IN  find_from(db, lines, source_file, k + 1,
                 CASE out.kind = "skipped" -> acc
                   [] out.kind = "matched" ->
                        [acc EXCEPT !.procedures = Append(@, out.record)]
                   [] out.kind = "generic" ->
                        [acc EXCEPT !.procedures = Append(@, out.record),
                                    !.generic_lines =
                                        Append(@, out.record.cleaned_line)]
                   [] out.kind = "unmatched" ->
                        [acc EXCEPT !.unmatched_lines =
                                        Append(@, out.cleaned_line)])

\* returns procedures, unmatched_lines, generic_lines
find_procedures_in_reconstructed_text(db, lines, source_file) ==
    find_from(db, lines, source_file, 1,
              [procedures |-> <<>>, unmatched_lines |-> <<>>,
               generic_lines |-> <<>>])

(***************************************************************************)
(* calculate_wrvus: the aggregator                                         *)
(***************************************************************************)
\* an assignment that moves an existing key to the end of the dict
dict_set_reinserts(d, key, value) ==
    Append(SelectSeq(d, LAMBDA item : item[1] # key), <<key, value>>)

\* d[key] = value
dict_set(d, key, value) ==
    IF key \in keys(d)
    THEN [i \in DOMAIN d |-> IF d[i][1] = key THEN <<key, value>> ELSE d[i]]
    ELSE Append(d, <<key, value>>)

\* the counting loop storing 1 instead of the incremented count
RECURSIVE count_from_no_increment(_, _, _)
count_from_no_increment(procs, k, procedure_counts) ==
    IF k > Len(procs) THEN procedure_counts
    ELSE count_from_no_increment(procs, k + 1,
             dict_set(procedure_counts, procs[k].procedure, 1))

\* procedure_counts after the first loop, from the k-th record on
RECURSIVE count_from(_, _, _)
count_from(procs, k, procedure_counts) ==
    IF k > Len(procs) THEN procedure_counts
    ELSE LET name == procs[k].procedure
         IN  count_from(procs, k + 1,
                 dict_set(procedure_counts, name,
                          dict_get(procedure_counts, name, 0) + 1))

\* the branch of the second loop an identity takes
is_generic_name(name) == startswith(name, S_GENERIC)

\* the entry the second loop appends to results for one identity; the
\* the default 1.0 of generic_wrvus.get is float_of(100)
result_entry(db, name, count) ==
    IF is_generic_name(name)
    THEN LET modality == replace(name, S_GENERIC_SP, <<>>)
             wrvu_each == dict_get(generic_wrvus, modality, float_of(100))
         IN  [procedure |-> name, count |-> count, wrvu_each |-> wrvu_each,
              total_wrvu |-> float_mul(wrvu_each, count), cpt |-> "GENERIC",
              is_generic |-> TRUE]
    ELSE LET proc_data == dict_get(db, name, None)
         IN  [procedure |-> name, count |-> count,
              wrvu_each |-> proc_data.wrvu,
              total_wrvu |-> float_mul(proc_data.wrvu, count),
              cpt |-> proc_data.cpt,
              is_generic |-> FALSE]

\* the running totals of the loop over procedure_counts, from the k-th result
RECURSIVE totals_from(_, _, _)
totals_from(res, k, acc) ==
    IF k > Len(res) THEN acc
    ELSE totals_from(res, k + 1,
             [total_exams |-> acc.total_exams + res[k].count,
              total_wrvus |-> float_add(acc.total_wrvus, res[k].total_wrvu),
              generic_count |-> acc.generic_count
                                + (IF res[k].is_generic THEN res[k].count
                                   ELSE 0)])

\* returns results, total_exams, total_wrvus, generic_count; raised is
\* "KeyError" when self.procedure_db[proc_name] finds no entry
calculate_wrvus(db, procs) ==
    LET procedure_counts == count_from(procs, 1, <<>>)
        missing == {i \in DOMAIN procedure_counts :
                       /\ ~is_generic_name(procedure_counts[i][1])
                       /\ procedure_counts[i][1] \notin keys(db)}
        res == [i \in DOMAIN procedure_counts |->
                   result_entry(db, procedure_counts[i][1],
                                procedure_counts[i][2])]
    IN  IF missing # {}
        THEN [raised |-> "KeyError", results |-> <<>>, total_exams |-> 0,
              total_wrvus |-> float_zero, generic_count |-> 0]
        ELSE LET totals == totals_from(res, 1,
                               [total_exams |-> 0, total_wrvus |-> float_zero,
                                generic_count |-> 0])
             IN  [raised |-> "no", results |-> res,
                  total_exams |-> totals.total_exams,
                  total_wrvus |-> totals.total_wrvus,
                  generic_count |-> totals.generic_count]

(***************************************************************************)
(* The specifications.                                                     *)
(***************************************************************************)
IdleClean == text = <<>> /\ cleaned = <<>> /\ recleaned = <<>>
IdleAccept == proc_name = <<>> /\ line = <<>> /\ accepted = FALSE
IdleMatch ==
    /\ procedure_db = <<>>
    /\ procedure_lines = <<>>
    /\ procedures = <<>>
    /\ unmatched_lines = <<>>
    /\ generic_lines = <<>>
IdleAgg ==
    /\ results = <<>>
    /\ total_exams = 0
    /\ total_wrvus = float_zero
    /\ generic_count = 0
    /\ raised = "no"
IdleGeneric == generic_result = <<>>
IdleRecon ==
    /\ raw_lines = <<>>
    /\ line_index = 0
    /\ current_procedure = <<>>
    /\ reconstructed_lines = <<>>
    /\ current_fragments = <<>>
    /\ line_fragments = <<>>
IdleRun ==
    /\ image_paths = <<>>
    /\ image_index = 0
    /\ all_procedures = <<>>
    /\ all_unmatched = <<>>
    /\ all_generic = <<>>
    /\ aggregator_calls = 0
    /\ gui_results = <<>>
IdleGui ==
    /\ selected_files = <<>>
    /\ status_label = <<>>
    /\ threads = <<>>
    /\ after_queue = <<>>
    /\ progress = "stopped"
    /\ calculate_btn = "normal"
    /\ results_label = <<>>
    /\ unmatched_procedures = <<>>
    /\ unmatched_text = <<>>
    /\ email_btn = "disabled"
    /\ cleared = FALSE
IdleMore == IdleGeneric /\ IdleRecon /\ IdleRun /\ IdleGui

\* --- the matcher followed by the aggregator, on one catalog ---
Init ==
    /\ pc = "start"
    /\ procedure_db \in Catalogs
    /\ procedure_lines \in SeqsOf(LinePool, 0, MaxLines)
    /\ procedures = <<>>
    /\ unmatched_lines = <<>>
    /\ generic_lines = <<>>
    /\ IdleAgg
    /\ IdleClean
    /\ IdleAccept
    /\ IdleMore

\* procedures, unmatched, generic =
\*     find_procedures_in_reconstructed_text(procedure_lines, source)
Match ==
    /\ pc = "start"
    /\ LET out == find_procedures_in_reconstructed_text(
                      procedure_db, procedure_lines, SourceFile)
       IN  /\ procedures' = out.procedures
           /\ unmatched_lines' = out.unmatched_lines
           /\ generic_lines' = out.generic_lines
    /\ pc' = "matched"
    /\ UNCHANGED <<procedure_db, procedure_lines, aggVars, cleanVars,
                   acceptVars, moreVars>>

\* results, total_exams, total_wrvus, generic_count =
\*     calculate_wrvus(procedures)
Aggregate ==
    /\ pc = "matched"
    /\ LET out == calculate_wrvus(procedure_db, procedures)
       IN  /\ results' = out.results
           /\ total_exams' = out.total_exams
           /\ total_wrvus' = out.total_wrvus
           /\ generic_count' = out.generic_count
           /\ raised' = out.raised
    /\ pc' = "done"
    /\ UNCHANGED <<matchVars, cleanVars, acceptVars, moreVars>>

Next == Match \/ Aggregate

Spec == Init /\ [][Next]_vars

\* --- the normalizer, applied once and then to its own result ---
InitClean ==
    /\ pc = "raw"
    /\ text \in TextInputs
    /\ cleaned = <<>>
    /\ recleaned = <<>>
    /\ IdleAccept
    /\ IdleMatch
    /\ IdleAgg
    /\ IdleMore

Clean ==
    /\ pc = "raw"
    /\ cleaned' = clean_pacs_text(text)
    /\ pc' = "cleaned"
    /\ UNCHANGED <<text, recleaned, acceptVars, matchVars, aggVars, moreVars>>

CleanAgain ==
    /\ pc = "cleaned"
    /\ recleaned' = clean_pacs_text(cleaned)
    /\ pc' = "recleaned"
    /\ UNCHANGED <<text, cleaned, acceptVars, matchVars, aggVars, moreVars>>

NextClean == Clean \/ CleanAgain

SpecClean == InitClean /\ [][NextClean]_vars

\* --- the acceptance test, applied to one name and one line ---
InitAccept ==
    /\ pc = "asked"
    /\ proc_name \in AcceptNames
    /\ line \in AcceptLines
    /\ accepted = FALSE
    /\ IdleClean
    /\ IdleMatch
    /\ IdleAgg
    /\ IdleMore

Accept ==
    /\ pc = "asked"
    /\ accepted' = fuzzy_match(proc_name, line)
    /\ pc' = "answered"
    /\ UNCHANGED <<proc_name, line, cleanVars, matchVars, aggVars, moreVars>>

NextAccept == Accept

SpecAccept == InitAccept /\ [][NextAccept]_vars

\* --- the reconstructor, one raw line at a time ---
InitReconstruct ==
    /\ pc = "text"
    /\ text \in RawTexts
    /\ cleaned = <<>>
    /\ recleaned = <<>>
    /\ IdleRecon
    /\ IdleGeneric
    /\ IdleRun
    /\ IdleAccept
    /\ IdleMatch
    /\ IdleAgg
    /\ IdleGui

\* lines = [line.strip() for line in text.splitlines() if line.strip()]
SplitLines ==
    /\ pc = "text"
    /\ raw_lines' = stripped_lines(text)
    /\ line_index' = 1
    /\ pc' = "loop"
    /\ UNCHANGED <<current_procedure, reconstructed_lines, current_fragments,
                   line_fragments, cleanVars, genericVars, acceptVars,
                   matchVars, aggVars, runVars, guiVars>>

\* one pass of "for line in lines"
ReconstructLine ==
    /\ pc = "loop"
    /\ line_index <= Len(raw_lines)
    /\ LET ln == raw_lines[line_index]
           kind == line_kind(ln)
           st == reconstruct_step(
                     [current_procedure |-> current_procedure,
                      reconstructed_lines |-> reconstructed_lines], ln)
       IN  /\ current_procedure' = st.current_procedure
           /\ reconstructed_lines' = st.reconstructed_lines
           /\ current_fragments' =
                  CASE kind = "date" -> <<>>
                    [] kind = "modality" -> <<line_index>>
                    [] kind = "continuation" ->
                           Append(current_fragments, line_index)
                    [] OTHER -> current_fragments
           /\ line_fragments' =
                  CASE kind = "date" /\ current_procedure # <<>> ->
                           Append(line_fragments,
                                  Append(current_fragments, line_index))
                    [] kind = "modality" /\ current_procedure # <<>> ->
                           Append(line_fragments, current_fragments)
                    [] OTHER -> line_fragments
    /\ line_index' = line_index + 1
    /\ UNCHANGED <<pc, raw_lines, cleanVars, genericVars, acceptVars,
                   matchVars, aggVars, runVars, guiVars>>

\* after the loop: the last procedure is appended and the list returned
ReconstructFlush ==
    /\ pc = "loop"
    /\ line_index > Len(raw_lines)
    /\ reconstructed_lines' =
           reconstruct_flush([current_procedure |-> current_procedure,
                              reconstructed_lines |-> reconstructed_lines])
    /\ line_fragments' =
           IF current_procedure # <<>>
           THEN Append(line_fragments, current_fragments)
           ELSE line_fragments
    /\ pc' = "returned"
    /\ UNCHANGED <<raw_lines, line_index, current_procedure,
                   current_fragments, cleanVars, genericVars, acceptVars,
                   matchVars, aggVars, runVars, guiVars>>

NextReconstruct == SplitLines \/ ReconstructLine \/ ReconstructFlush

SpecReconstruct == InitReconstruct /\ [][NextReconstruct]_vars

\* --- the generic classifier, applied to one line ---
InitGeneric ==
    /\ pc = "unclassified"
    /\ line \in GenericLines
    /\ proc_name = <<>>
    /\ accepted = FALSE
    /\ generic_result = <<>>
    /\ IdleRecon
    /\ IdleRun
    /\ IdleClean
    /\ IdleMatch
    /\ IdleAgg
    /\ IdleGui

Classify ==
    /\ pc = "unclassified"
    /\ generic_result' = try_generic_match(line)
    /\ pc' = "classified"
    /\ UNCHANGED <<acceptVars, cleanVars, matchVars, aggVars, reconVars,
                   runVars, guiVars>>

NextGeneric == Classify

SpecGeneric == InitGeneric /\ [][NextGeneric]_vars

\* --- a calculation run: calculate_thread over the run's images ---
S_EXAMS == <<" ", "E", "x", "a", "m", "s", " ", "|", " ">>
S_WRVUS == <<" ", "w", "R", "V", "U", "s">>
S_NO_PROCEDURES ==
    <<"N", "o", " ", "p", "r", "o", "c", "e", "d", "u", "r", "e", "s", " ",
      "f", "o", "u", "n", "d">>
S_ERROR == <<"E", "r", "r", "o", "r", ":", " ">>

\* os.path.basename(image_path) of the image at a position of image_paths
basename(index) == <<"image", index, ".png">>

\* not text.strip()
is_blank(txt) == strip(txt) = <<>>

\* the code after the loop placed in the loop body: it runs after any image
loop_finished_any(position, index, paths) == position = "images"

\* "for image_path in image_paths" has run out of images
loop_finished(position, index, paths) ==
    position = "images" /\ index = Len(paths)

\* the arguments of one call of update_gui_results
gui_call(results_text, exams, wrvus, unmatched_list, has_issues) ==
    [results_text |-> results_text, total_exams |-> exams,
     total_wrvus |-> wrvus, unmatched_list |-> unmatched_list,
     has_issues |-> has_issues]

InitRun ==
    /\ pc = "images"
    /\ procedure_db = RunCatalog
    /\ image_paths \in SeqsOf(ImagePool, 1, MaxImages)
    /\ image_index = 0
    /\ all_procedures = <<>>
    /\ all_unmatched = <<>>
    /\ all_generic = <<>>
    /\ aggregator_calls = 0
    /\ gui_results = <<>>
    /\ procedure_lines = <<>>
    /\ procedures = <<>>
    /\ unmatched_lines = <<>>
    /\ generic_lines = <<>>
    /\ IdleAgg
    /\ IdleClean
    /\ IdleAccept
    /\ IdleGeneric
    /\ IdleRecon
    /\ IdleGui

\* if not os.path.exists(image_path): continue
MissingImage ==
    /\ pc = "images"
    /\ image_index < Len(image_paths)
    /\ image_paths[image_index + 1].kind = "missing"
    /\ image_index' = image_index + 1
    /\ UNCHANGED <<pc, image_paths, all_procedures, all_unmatched,
                   all_generic, aggregator_calls, gui_results, cleanVars,
                   acceptVars, matchVars, aggVars, genericVars, reconVars,
                   guiVars>>

\* extract_text_from_image raises: except Exception: continue
UnreadableImage ==
    /\ pc = "images"
    /\ image_index < Len(image_paths)
    /\ image_paths[image_index + 1].kind = "unreadable"
    /\ image_index' = image_index + 1
    /\ UNCHANGED <<pc, image_paths, all_procedures, all_unmatched,
                   all_generic, aggregator_calls, gui_results, cleanVars,
                   acceptVars, matchVars, aggVars, genericVars, reconVars,
                   guiVars>>

\* text = extract_text_from_image(image_path); if not text.strip(): continue
ExtractText ==
    /\ pc = "images"
    /\ image_index < Len(image_paths)
    /\ image_paths[image_index + 1].kind = "image"
    /\ image_index' = image_index + 1
    /\ text' = image_paths[image_index + 1].text
    /\ pc' = IF is_blank(text') THEN "images" ELSE "extracted"
    /\ UNCHANGED <<image_paths, all_procedures, all_unmatched, all_generic,
                   aggregator_calls, gui_results, cleaned, recleaned,
                   acceptVars, matchVars, aggVars, genericVars, reconVars,
                   guiVars>>

\* procedure_lines = self.calculator.reconstruct_procedure_lines(text)
ReconstructText ==
    /\ pc = "extracted"
    /\ procedure_lines' = reconstruct_procedure_lines(text)
    /\ pc' = "reconstructed"
    /\ UNCHANGED <<procedure_db, procedures, unmatched_lines, generic_lines,
                   cleanVars, acceptVars, aggVars, moreVars>>

\* procedures, unmatched, generic =
\*     self.calculator.find_procedures_in_reconstructed_text(
\*         procedure_lines, os.path.basename(image_path))
FindProcedures ==
    /\ pc = "reconstructed"
    /\ LET out == find_procedures_in_reconstructed_text(
                      procedure_db, procedure_lines, basename(image_index))
       IN  /\ procedures' = out.procedures
           /\ unmatched_lines' = out.unmatched_lines
           /\ generic_lines' = out.generic_lines
    /\ pc' = "found"
    /\ UNCHANGED <<procedure_db, procedure_lines, cleanVars, acceptVars,
                   aggVars, moreVars>>

\* all_procedures.extend(procedures); all_unmatched.extend(unmatched);
\* all_generic.extend(generic)
Extend ==
    /\ pc = "found"
    /\ all_procedures' = all_procedures \o procedures
    /\ all_unmatched' = all_unmatched \o unmatched_lines
    /\ all_generic' = all_generic \o generic_lines
    /\ pc' = "images"
    /\ UNCHANGED <<image_paths, image_index, aggregator_calls, gui_results,
                   cleanVars, acceptVars, matchVars, aggVars, genericVars,
                   reconVars, guiVars>>

\* if not all_procedures:
\*     self.update_gui_results("No procedures found", 0, 0.0, [], True)
NoProcedures ==
    /\ loop_finished(pc, image_index, image_paths)
    /\ all_procedures = <<>>
    /\ gui_results' = gui_call(S_NO_PROCEDURES, 0, float_zero, <<>>, TRUE)
    /\ pc' = "finished"
    /\ UNCHANGED <<image_paths, image_index, all_procedures, all_unmatched,
                   all_generic, aggregator_calls, cleanVars, acceptVars,
                   matchVars, aggVars, genericVars, reconVars, guiVars>>

\* calc_results, total_exams, total_wrvus, generic_count =
\*     self.calculator.calculate_wrvus(all_procedures)
AggregateRun ==
    /\ loop_finished(pc, image_index, image_paths)
    /\ all_procedures # <<>>
    /\ LET out == calculate_wrvus(procedure_db, all_procedures)
       IN  /\ results' = out.results
           /\ total_exams' = out.total_exams
           /\ total_wrvus' = out.total_wrvus
           /\ generic_count' = out.generic_count
           /\ raised' = out.raised
    /\ aggregator_calls' = aggregator_calls + 1
    /\ pc' = "aggregated"
    /\ UNCHANGED <<image_paths, image_index, all_procedures, all_unmatched,
                   all_generic, gui_results, cleanVars, acceptVars,
                   matchVars, genericVars, reconVars, guiVars>>

\* self.update_gui_results(
\*     f"{total_exams} Exams | {total_wrvus:.1f} wRVUs", total_exams,
\*     total_wrvus, all_unmatched, generic_count > 0)
\* or, when calculate_wrvus raised,
\* self.update_gui_results(f"Error: {str(e)}", 0, 0.0, [], True)
ShowResults ==
    /\ pc = "aggregated"
    /\ gui_results' =
           IF raised = "no"
           THEN gui_call(decimal(total_exams) \o S_EXAMS
                             \o format_1f(total_wrvus) \o S_WRVUS,
                         total_exams, total_wrvus, all_unmatched,
                         generic_count > 0)
           ELSE gui_call(S_ERROR, 0, float_zero, <<>>, TRUE)
    /\ pc' = "finished"
    /\ UNCHANGED <<image_paths, image_index, all_procedures, all_unmatched,
                   all_generic, aggregator_calls, cleanVars, acceptVars,
                   matchVars, aggVars, genericVars, reconVars, guiVars>>

NextRun ==
    \/ MissingImage
    \/ UnreadableImage
    \/ ExtractText
    \/ ReconstructText
    \/ FindProcedures
    \/ Extend
    \/ NoProcedures
    \/ AggregateRun
    \/ ShowResults

SpecRun == InitRun /\ [][NextRun]_vars

(***************************************************************************)
(* Properties.                                                             *)
(***************************************************************************)
RECURSIVE Sum(_)
Sum(seq) == IF seq = <<>> THEN 0 ELSE Head(seq) + Sum(Tail(seq))

\* the sum of a sequence of floats, added in order from 0.0
RECURSIVE FloatSum(_, _, _)
FloatSum(seq, k, acc) ==
    IF k > Len(seq) THEN acc
    ELSE FloatSum(seq, k + 1, float_add(acc, seq[k]))

\* the lines of procedure_lines the matcher does not skip, as indices
LongLines == {k \in DOMAIN procedure_lines : Len(procedure_lines[k]) >= 5}

\* the subsequence of seq at the indices in idx, in order
RECURSIVE Pick(_, _, _)
Pick(seq, idx, k) ==
    IF k > Len(seq) THEN <<>>
    ELSE (IF k \in idx THEN <<seq[k]>> ELSE <<>>) \o Pick(seq, idx, k + 1)

\* the catalog names that accept a cleaned line
Accepting(db, cleaned_line) ==
    {name \in keys(db) : accepts(name, cleaned_line)}

\* the weight of a match record's own identity: the catalog entry's weight,
\* or the generic table's weight for the record's modality
OwnWeight(db, r) ==
    IF r.is_generic
    THEN dict_get(generic_wrvus,
                  SubSeq(r.procedure, Len(S_GENERIC_SP) + 1, Len(r.procedure)),
                  float_zero)
    ELSE dict_get(db, r.procedure, None).wrvu

W_KNEE == <<"K", "N", "E", "E">>
W_HIP == <<"H", "I", "P">>

\* C1: after aggregation the per-identity counts sum to the number of match
\* records, and total_exams equals that number.
C1_OccurrencesConserved ==
    pc = "done" =>
        /\ raised = "no"
        /\ Sum([i \in DOMAIN results |-> results[i].count]) = Len(procedures)
        /\ total_exams = Len(procedures)

\* C1 case: two records of one identity were aggregated into one result.
C1_Witness ==
    /\ pc = "done"
    /\ Len(procedures) = 2
    /\ Len(results) = 1
    /\ results[1].count = 2

\* C2: after aggregation the per-identity totals sum to the sum, over the
\* match records, of each record's own weight; every identity's total is its
\* weight times its count; total_wrvus is that sum.
C2_WeightConserved ==
    pc = "done" =>
        LET own == FloatSum([i \in DOMAIN procedures |->
                                OwnWeight(procedure_db, procedures[i])],
                            1, float_zero)
        IN  /\ raised = "no"
            /\ \A i \in DOMAIN results :
                   results[i].total_wrvu
                   = float_mul(results[i].wrvu_each, results[i].count)
            /\ FloatSum([i \in DOMAIN results |-> results[i].total_wrvu],
                        1, float_zero) = own
            /\ total_wrvus = own

\* C3: every match record's identity is a catalog key, or "GENERIC " followed
\* by a modality that is a key of the generic weight table.
C3_IdentityKnown ==
    pc \in {"matched", "done"} =>
        \A i \in DOMAIN procedures :
            \/ procedures[i].procedure \in keys(procedure_db)
            \/ \E m \in keys(generic_wrvus) :
                   procedures[i].procedure = generic_identity(m)

\* C3 case: the matcher emitted a catalog record and a generic record.
C3_Witness ==
    /\ pc = "matched"
    /\ \E i \in DOMAIN procedures : procedures[i].is_generic
    /\ \E i \in DOMAIN procedures : ~procedures[i].is_generic

\* C4: cleaning a cleaned text changes nothing:
\* clean_pacs_text(clean_pacs_text(s)) = clean_pacs_text(s).
C4_CleanIdempotent ==
    pc = "recleaned" => recleaned = cleaned

\* C5: a name whose word set contains KNEE never accepts a line whose word set
\* contains HIP.
C5_KneeNeverAcceptsHip ==
    pc = "answered" =>
        LET proc_words == word_set(strip(upper(proc_name)))
            line_words == word_set(strip(upper(line)))
        IN  (W_KNEE \in proc_words /\ W_HIP \in line_words) => ~accepted

\* C5 amended: a name whose word set contains KNEE but not HIP, and which is
\* not a literal substring of the line, never accepts a line whose word set
\* contains HIP.
C5_KneeWithoutHipNeverAcceptsHip ==
    pc = "answered" =>
        LET proc_upper == strip(upper(proc_name))
            line_upper == strip(upper(line))
            proc_words == word_set(proc_upper)
            line_words == word_set(line_upper)
        IN  (/\ W_KNEE \in proc_words
             /\ W_HIP \notin proc_words
             /\ W_HIP \in line_words
             /\ ~contains(line_upper, proc_upper)) => ~accepted

\* C5 case: every word of a KNEE name is in a line that also names HIP, the
\* name is not a substring of the line, and the line was refused.
C5_Witness ==
    /\ pc = "answered"
    /\ LET proc_upper == strip(upper(proc_name))
           line_upper == strip(upper(line))
           proc_words == word_set(proc_upper)
           line_words == word_set(line_upper)
       IN  /\ W_KNEE \in proc_words
           /\ W_HIP \notin proc_words
           /\ W_HIP \in line_words
           /\ proc_words \subseteq line_words
           /\ ~contains(line_upper, proc_upper)
    /\ ~accepted

\* C6: when the upper-cased, trimmed name is a substring of the upper-cased,
\* trimmed line, fuzzy_match returns true whatever the gates would say.
C6_SubstringAccepts ==
    pc = "answered" =>
        (contains(strip(upper(line)), strip(upper(proc_name))) => accepted)

\* C6 case: the name is a substring of the line, the gates refuse the pair,
\* and the line was accepted.
C6_Witness ==
    /\ pc = "answered"
    /\ contains(strip(upper(line)), strip(upper(proc_name)))
    /\ ~gates(strip(upper(proc_name)), strip(upper(line)))
    /\ accepted

\* C7: when catalog names accept a cleaned line, the matcher's record for the
\* line carries an accepting name of the greatest word count among them; a
\* line left unmatched has no accepting name.
C7_GreatestWordCount ==
    pc = "matched" =>
        /\ \A i \in DOMAIN procedures :
               LET r == procedures[i]
                   A == Accepting(procedure_db, r.cleaned_line)
               IN  A # {} =>
                       /\ r.procedure \in A
                       /\ \A name \in A :
                              split_count(name) <= split_count(r.procedure)
        /\ \A i \in DOMAIN unmatched_lines :
               Accepting(procedure_db, unmatched_lines[i]) = {}

\* C7 case: two names of different word counts accept the same line.
C7_Witness ==
    /\ pc = "matched"
    /\ \E i \in DOMAIN procedures :
           \E a, b \in Accepting(procedure_db, procedures[i].cleaned_line) :
               /\ split_count(a) < split_count(b)
               /\ procedures[i].procedure = b

\* C8: the matcher's selections are the same for every iteration order of the
\* catalog, ties in word count included.
C8_OrderIndependent ==
    pc = "matched" =>
        \A p \in Permutations(DOMAIN procedure_db) :
            LET db2 == [i \in DOMAIN procedure_db |-> procedure_db[p[i]]]
                out == find_procedures_in_reconstructed_text(
                           db2, procedure_lines, SourceFile)
            IN  [i \in DOMAIN out.procedures |-> out.procedures[i].procedure]
                = [i \in DOMAIN procedures |-> procedures[i].procedure]

\* C9: the lines of length 5 or more split into those with one match record
\* and those with one unmatched entry, both lists in input order; so the two
\* lists together are as long as the number of such lines.
C9_OneOutcomePerLine ==
    pc = "matched" =>
        /\ Len(procedures) + Len(unmatched_lines) = Cardinality(LongLines)
        /\ \E M \in SUBSET LongLines :
               /\ [i \in DOMAIN procedures |-> procedures[i].original_line]
                  = Pick(procedure_lines, M, 1)
               /\ LET rest == Pick(procedure_lines, LongLines \ M, 1)
                  IN  unmatched_lines
                      = [i \in DOMAIN rest |-> clean_line(rest[i])]

\* C9 case: of two long lines one got a record and the other an unmatched
\* entry, or a short line was skipped next to a long one.
C9_Witness ==
    /\ pc = "matched"
    /\ Len(procedure_lines) = 2
    /\ \/ Len(procedures) = 1 /\ Len(unmatched_lines) = 1
       \/ Cardinality(LongLines) = 1 /\ Len(procedures) = 1

\* C10: a line accepted by some catalog name gets a catalog record, never a
\* generic one; a generic record is emitted only when no catalog name accepts
\* the line, and then carries "GENERIC " and the classified modality.
C10_CatalogBeforeGeneric ==
    pc = "matched" =>
        \A i \in DOMAIN procedures :
            LET r == procedures[i]
                A == Accepting(procedure_db, r.cleaned_line)
            IN  /\ A # {} => (~r.is_generic /\ r.procedure \in A)
                /\ r.is_generic =>
                       /\ A = {}
                       /\ generic_of(r.cleaned_line) # None
                       /\ r.procedure = generic_identity(
                                            generic_of(r.cleaned_line))
                /\ A = {} => r.is_generic

\* C10 case: a line that the generic classifier would classify was accepted by
\* a catalog name and got the catalog record.
C10_Witness ==
    /\ pc = "matched"
    /\ \E i \in DOMAIN procedures :
           /\ ~procedures[i].is_generic
           /\ procedures[i].procedure \in keys(procedure_db)
           /\ generic_of(procedures[i].cleaned_line) # None

\* the modalities of the generic classifier's table, in the stated order
TableOrder ==
    << <<"C", "T">>,
       <<"M", "R", "I">>,
       <<"U", "S">>,
       <<"X", "R">>,
       <<"M", "A", "M", "M", "O", "G", "R", "A", "P", "H", "Y">>,
       <<"P", "E", "T">>,
       <<"N", "M">>,
       <<"F", "L">>,
       <<"A", "N", "G", "I", "O">>,
       <<"D", "X", "A">>,
       <<"I", "R">>,
       <<"P", "R", "O", "C", "E", "D", "U", "R", "E">> >>

\* the k-th modality of the classifier's table has a pattern in the line
HasPattern(k, ln) ==
    \E p \in Range(modality_patterns[k][2]) : contains(upper(ln), p)

\* C11: try_generic_match returns the first modality, in the order CT, MRI,
\* US, XR, MAMMOGRAPHY, PET, NM, FL, ANGIO, DXA, IR, PROCEDURE, that has a
\* pattern occurring in the upper-cased line, and None exactly when no
\* pattern of any modality occurs; "ULTRASOUND GALLBLADDER" yields US and
\* the identity "GENERIC US".
C11_FirstModalityInTableOrder ==
    pc = "classified" =>
        /\ [k \in DOMAIN modality_patterns |-> modality_patterns[k][1]]
           = TableOrder
        /\ generic_result = None
           <=> ~\E k \in DOMAIN TableOrder : HasPattern(k, line)
        /\ generic_result # None =>
               \E k \in DOMAIN TableOrder :
                   /\ HasPattern(k, line)
                   /\ \A j \in 1..(k - 1) : ~HasPattern(j, line)
                   /\ generic_result = TableOrder[k]
        /\ line = <<"U", "L", "T", "R", "A", "S", "O", "U", "N", "D", " ", "G", "A", "L", "L", "B", "L", "A", "D", "D", "E", "R">> =>
               /\ generic_result = <<"U", "S">>
               /\ generic_identity(generic_result)
                  = <<"G", "E", "N", "E", "R", "I", "C", " ", "U", "S">>

\* C11 case: patterns of two modalities occur in the line and the classifier
\* returned the one earlier in the table.
C11_Witness ==
    /\ pc = "classified"
    /\ \E j, k \in DOMAIN TableOrder :
           /\ j < k
           /\ HasPattern(j, line)
           /\ HasPattern(k, line)
           /\ generic_result = TableOrder[j]

\* the entries of the reconstructor, finished or being assembled, as
\* sequences of raw-line positions
Entries ==
    line_fragments
    \o (IF pc = "loop" /\ current_fragments # <<>>
        THEN <<current_fragments>> ELSE <<>>)

\* C19: every raw line that begins with a modality-prefix token starts a new
\* entry: once the loop has passed it, it is the first fragment of an entry,
\* and no entry holds a modality-prefixed raw line anywhere but first (so no
\* entry holds two of them).
C19_OneProcedurePerEntry ==
    pc \in {"loop", "returned"} =>
        /\ \A i \in 1..(line_index - 1) :
               has_modality_prefix(raw_lines[i]) =>
                   \E e \in DOMAIN Entries : Entries[e][1] = i
        /\ \A e \in DOMAIN Entries :
               \A j \in DOMAIN Entries[e] :
                   has_modality_prefix(raw_lines[Entries[e][j]]) => j = 1

\* C20: a pass of the loop over a raw line of at least 3 characters that
\* matches the date pattern appends current_procedure, a space and the line
\* to the output and empties current_procedure when current_procedure is
\* non-empty, and changes neither otherwise; and in every finished entry a
\* date-matching raw line is the last fragment (so there is at most one).
C20_DateRule ==
    /\ [][(/\ pc = "loop"
           /\ line_index <= Len(raw_lines)
           /\ line_index' = line_index + 1
           /\ Len(raw_lines[line_index]) >= 3
           /\ is_date(raw_lines[line_index]))
          => IF current_procedure # <<>>
             THEN /\ reconstructed_lines'
                     = Append(reconstructed_lines,
                              current_procedure \o <<" ">>
                              \o raw_lines[line_index])
                  /\ current_procedure' = <<>>
             ELSE UNCHANGED <<reconstructed_lines, current_procedure>>]_vars
    /\ [](/\ Len(line_fragments) = Len(reconstructed_lines)
          /\ \A e \in DOMAIN line_fragments :
                 \A j \in DOMAIN line_fragments[e] :
                     is_date(raw_lines[line_fragments[e][j]])
                         => j = Len(line_fragments[e]))

\* C20 case: the loop has just passed a date line while an entry was being
\* assembled: the entry was finished with the date as its last fragment.
C20_Witness ==
    /\ pc = "loop"
    /\ line_index > 1
    /\ is_date(raw_lines[line_index - 1])
    /\ line_fragments # <<>>
    /\ LET last == line_fragments[Len(line_fragments)]
       IN  Len(last) > 1 /\ last[Len(last)] = line_index - 1
    /\ current_procedure = <<>>

\* C18: for records produced by the matcher, the aggregator ends without a
\* failed catalog lookup, and every result's per-unit weight is the weight of
\* the catalog entry of that name, or the generic table's weight for the
\* identity's modality together with the billing code "GENERIC"; the 1.0
\* default is not a source.
C18_NoInventedWeight ==
    pc = "done" =>
        /\ raised = "no"
        /\ \A i \in DOMAIN results :
               LET r == results[i]
               IN  \/ /\ r.procedure \in keys(procedure_db)
                      /\ r.wrvu_each
                         = dict_get(procedure_db, r.procedure, None).wrvu
                   \/ \E m \in keys(generic_wrvus) :
                          /\ r.procedure = generic_identity(m)
                          /\ r.wrvu_each = dict_get(generic_wrvus, m, None)
                          /\ r.cpt = "GENERIC"

\* what the body of the loop over image_paths collects from one image
image_contribution(db, img, index) ==
    IF img.kind # "image" \/ is_blank(img.text)
    THEN [procedures |-> <<>>, unmatched_lines |-> <<>>,
          generic_lines |-> <<>>]
    ELSE find_procedures_in_reconstructed_text(
             db, reconstruct_procedure_lines(img.text), basename(index))

\* the unmatched lines of the images of a run, from the k-th image on, in
\* processing order
RECURSIVE unmatched_from(_, _, _)
unmatched_from(db, paths, k) ==
    IF k > Len(paths) THEN <<>>
    ELSE image_contribution(db, paths[k], k).unmatched_lines
         \o unmatched_from(db, paths, k + 1)

\* C13: when a calculation run finishes, the unmatched list handed to
\* update_gui_results is the concatenation, in processing order, of the
\* unmatched lines of all the images of the run, one entry per occurrence.
C13_UnmatchedSurfaced ==
    pc = "finished" =>
        gui_results.unmatched_list
        = unmatched_from(procedure_db, image_paths, 1)

\* the match records of the images of a run, from the k-th image on, in
\* processing order
RECURSIVE procedures_from(_, _, _)
procedures_from(db, paths, k) ==
    IF k > Len(paths) THEN <<>>
    ELSE image_contribution(db, paths[k], k).procedures
         \o procedures_from(db, paths, k + 1)

\* C15: in a calculation run calculate_wrvus is called at most once; when it
\* is called the loop has taken every image of the run and the accumulator
\* holds the match records of all of them; after the call nothing is
\* appended to the accumulator.
C15_AggregatorOnceAfterLoop ==
    /\ [](aggregator_calls <= 1)
    /\ [](aggregator_calls = 1 =>
              /\ image_index = Len(image_paths)
              /\ pc \in {"aggregated", "finished"}
              /\ all_procedures
                 = procedures_from(procedure_db, image_paths, 1))
    /\ [][aggregator_calls' > aggregator_calls =>
              /\ pc = "images"
              /\ image_index = Len(image_paths)
              /\ all_procedures
                 = procedures_from(procedure_db, image_paths, 1)]_vars
    /\ [][aggregator_calls >= 1 =>
              /\ all_procedures' = all_procedures
              /\ all_unmatched' = all_unmatched
              /\ all_generic' = all_generic
              /\ image_index' = image_index]_vars

\* the aggregator has run after two images that both contributed records
C15_Witness ==
    /\ aggregator_calls = 1
    /\ Len(image_paths) = 2
    /\ \A k \in 1..2 :
           image_contribution(procedure_db, image_paths[k], k).procedures
           # <<>>

\* C16: for every image the text is normalized first, the reconstructor runs
\* on the normalized text, the matcher runs on the reconstructed lines and
\* the image's contribution is appended, before the next image is taken.
C16_NormalizeReconstructMatch ==
    /\ pc \in {"reconstructed", "found"} =>
           procedure_lines
           = reconstruct_procedure_lines(clean_pacs_text(text))
    /\ pc = "found" =>
           LET out == find_procedures_in_reconstructed_text(
                          procedure_db, procedure_lines,
                          basename(image_index))
           IN  /\ procedures = out.procedures
               /\ unmatched_lines = out.unmatched_lines
               /\ generic_lines = out.generic_lines
    /\ pc \in {"extracted", "reconstructed", "found"} =>
           /\ image_index >= 1
           /\ text = image_paths[image_index].text

\* the image the loop has just taken returned an empty or whitespace-only
\* text
BlankTaken ==
    /\ image_index >= 1
    /\ image_paths[image_index].kind = "image"
    /\ is_blank(image_paths[image_index].text)

\* C17: reconstruct_procedure_lines returns no line for an empty or
\* whitespace-only text; an image whose OCR text is empty or whitespace-only
\* adds no match record and no unmatched line to the accumulators; and
\* calculate_wrvus on no records returns no results and totals 0, 0.0, 0.
C17_EmptyInputEmptyResult ==
    /\ [](\A i \in DOMAIN image_paths :
              is_blank(image_paths[i].text) =>
                  reconstruct_procedure_lines(image_paths[i].text) = <<>>)
    /\ [][(image_index' = image_index + 1 /\ BlankTaken') =>
              /\ all_procedures' = all_procedures
              /\ all_unmatched' = all_unmatched
              /\ all_generic' = all_generic
              /\ pc' = "images"]_vars
    /\ [](calculate_wrvus(procedure_db, <<>>)
          = [raised |-> "no", results |-> <<>>, total_exams |-> 0,
             total_wrvus |-> float_zero, generic_count |-> 0])
    /\ [](float_zero = <<>>)

\* a whitespace-only image taken after an image that contributed records
C17_Witness ==
    /\ pc = "images"
    /\ image_index = 2
    /\ BlankTaken
    /\ image_paths[2].text # <<>>
    /\ all_procedures # <<>>

\* the images of a run taken in the order q, a permutation of the positions
reordered(paths, q) == [i \in DOMAIN paths |-> paths[q[i]]]

\* <<identity, count>> of every result
identity_counts(res) == {<<res[i].procedure, res[i].count>> : i \in DOMAIN res}

\* C14: for a fixed set of images, each image's contribution being appended
\* as one step, calculate_wrvus returns the same total occurrences, total
\* weight, generic occurrence count and per-identity counts for every order
\* in which the contributions are appended.
C14_ImageOrderIndependent ==
    pc = "aggregated" =>
        \A q \in Permutations(DOMAIN image_paths) :
            LET out == calculate_wrvus(
                           procedure_db,
                           procedures_from(procedure_db,
                                           reordered(image_paths, q), 1))
            IN  /\ out.total_exams = total_exams
                /\ out.total_wrvus = total_wrvus
                /\ out.generic_count = generic_count
                /\ identity_counts(out.results) = identity_counts(results)

\* the raw lines of a text are a modality-prefixed line, then one or more
\* continuation lines, then a date line
Fragmented(txt) ==
    LET lns == stripped_lines(txt)
    IN  /\ Len(lns) >= 3
        /\ line_kind(lns[1]) = "modality"
        /\ \A i \in 2..(Len(lns) - 1) : line_kind(lns[i]) = "continuation"
        /\ line_kind(lns[Len(lns)]) = "date"

\* the fragments of a text joined by single spaces, and those before the date
joined_fragments(txt) == join(stripped_lines(txt), <<" ">>)
joined_name(txt) ==
    join(SubSeq(stripped_lines(txt), 1, Len(stripped_lines(txt)) - 1),
         <<" ">>)

\* C12: a text made of a modality-prefixed line, continuation lines and a
\* date line is reconstructed into exactly one line, the fragments joined by
\* single spaces with the date last; if the catalog holds the name equal to
\* the joined non-date fragments, fuzzy_match accepts that name for the
\* line, and a run over that image alone reports that entry with count 1
\* and the entry's weight as total.
C12_FragmentedEntryReassembled ==
    /\ (pc \in {"reconstructed", "found"} /\ Fragmented(text)) =>
           /\ procedure_lines = <<joined_fragments(text)>>
           /\ joined_name(text) \in keys(procedure_db) =>
                  fuzzy_match(joined_name(text),
                              clean_pacs_text(procedure_lines[1]))
    /\ (/\ pc = "finished"
        /\ Len(image_paths) = 1
        /\ image_paths[1].kind = "image"
        /\ Fragmented(image_paths[1].text)
        /\ joined_name(image_paths[1].text) \in keys(procedure_db)) =>
           LET name == joined_name(image_paths[1].text)
               entry == dict_get(procedure_db, name, None)
           IN  /\ Len(results) = 1
               /\ results[1].procedure = name
               /\ results[1].count = 1
               /\ results[1].total_wrvu = entry.wrvu
               /\ total_wrvus = entry.wrvu

\* the anatomy terms among the words of an upper-cased, trimmed string
anatomy_of(s) == word_set(strip(upper(s))) \cap anatomy_words

\* the name is not a literal substring of the line
NotSubstring == ~contains(strip(upper(line)), strip(upper(proc_name)))

\* C21: when the name is not a literal substring of the line, fuzzy_match
\* returns true only if the name has no anatomy term or has exactly the
\* anatomy terms of the line; on the line "XR KNEE 2 VIEWS RIGHT" the name
\* "XR KNEE MINIMUM 2 VIEWS" has the line's anatomy terms and the name
\* "XR HIP 2 OR 3 VIEWS" has not and is refused.
C21_AnatomyExact ==
    pc = "answered" =>
        /\ (NotSubstring /\ accepted) =>
              (anatomy_of(proc_name) = {} \/ anatomy_of(proc_name) = anatomy_of(line))
        /\ (line = S_KNEE_LINE /\ proc_name = S_KNEE_VIEWS) =>
              (NotSubstring /\ anatomy_of(proc_name) = anatomy_of(line))
        /\ (line = S_KNEE_LINE /\ proc_name = S_HIP_VIEWS) =>
              (NotSubstring /\ anatomy_of(proc_name) # anatomy_of(line) /\ ~accepted)

\* C21 case: the line has every word of the name and one anatomy term more,
\* and was refused.
C21_Witness ==
    /\ pc = "answered"
    /\ NotSubstring
    /\ word_set(strip(upper(proc_name))) \subseteq word_set(strip(upper(line)))
    /\ anatomy_of(proc_name) # {}
    /\ anatomy_of(proc_name) # anatomy_of(line)
    /\ anatomy_of(proc_name) \subseteq anatomy_of(line)
    /\ ~accepted

\* the modalities whose tokens are among the words of a string, MR counting
\* as MRI
modalities_named(s) ==
    LET words == word_set(strip(upper(s)))
    IN  {modality_mapping[k][1] : k \in {j \in DOMAIN modality_mapping :
            \E v \in Range(modality_mapping[j][2]) : v \in words}}

\* the one modality a string resolves to, None if it names none
modality_of(s) == resolve_modality(word_set(strip(upper(s))))

\* C22: each side resolves to at most one modality, one of those it names
\* (MR and MRI both name MRI), also when it names several; when the name is
\* not a literal substring of the line and both sides resolve to a modality
\* and the two differ, fuzzy_match returns false.
C22_ModalityGate ==
    pc = "answered" =>
        /\ \A s \in {proc_name, line} :
              /\ (modalities_named(s) = {}) = (modality_of(s) = None)
              /\ (modalities_named(s) # {}
                    => modality_of(s) \in modalities_named(s))
              /\ ((\E w \in {<<"M", "R">>, <<"M", "R", "I">>} :
                      /\ w \in word_set(strip(upper(s)))
                      /\ Cardinality(modalities_named(s)) = 1)
                    => modality_of(s) = <<"M", "R", "I">>)
        /\ (/\ NotSubstring
            /\ modality_of(proc_name) # None
            /\ modality_of(line) # None
            /\ modality_of(proc_name) # modality_of(line)) => ~accepted

\* C22 case: the line names two modalities, one of them the modality of the
\* name, resolves to the other one, has every word of the name, and was
\* refused.
C22_Witness ==
    /\ pc = "answered"
    /\ NotSubstring
    /\ Cardinality(modalities_named(line)) = 2
    /\ modality_of(proc_name) \in modalities_named(line)
    /\ modality_of(proc_name) # modality_of(line)
    /\ word_set(strip(upper(proc_name))) \subseteq word_set(strip(upper(line)))
    /\ ~accepted

\* the significant words of a string
significant_of(s) == word_set(strip(upper(s))) \ common_words

\* C23: when the name is not a literal substring of the line and has a
\* significant word, fuzzy_match returns true only if
\* 10 * |name /\ line| >= 9 * |name| over the significant words; a name of
\* fewer than 10 significant words is then accepted only if all of them are in
\* the line.
C23_CoverageGate ==
    pc = "answered" =>
        LET name_words == significant_of(proc_name)
            shared == name_words \cap significant_of(line)
        IN  (NotSubstring /\ name_words # {} /\ accepted) =>
                /\ 10 * Cardinality(shared) >= 9 * Cardinality(name_words)
                /\ (Cardinality(name_words) < 10
                      => name_words \subseteq significant_of(line))

\* C23 case: a name of ten significant words was accepted by a line that has
\* nine of them.
C23_Witness ==
    /\ pc = "answered"
    /\ NotSubstring
    /\ Cardinality(significant_of(proc_name)) = 10
    /\ Cardinality(significant_of(proc_name) \cap significant_of(line)) = 9
    /\ accepted

\* the contrast-status set of a string: WITH for the word WITH, WITHOUT for
\* the word WITHOUT or WO
contrast_status(s) ==
    LET words == word_set(strip(upper(s)))
    IN  {c \in {"WITH", "WITHOUT"} :
            \/ c = "WITH" /\ W_WITH \in words
            \/ c = "WITHOUT" /\ (W_WITHOUT \in words \/ W_WO \in words)}

\* C24: when the name is not a literal substring of the line and both sides
\* have a non-empty contrast-status set and the two sets are disjoint,
\* fuzzy_match returns false.
C24_ContrastGate ==
    (/\ pc = "answered"
     /\ NotSubstring
     /\ contrast_status(proc_name) # {}
     /\ contrast_status(line) # {}
     /\ contrast_status(proc_name) \cap contrast_status(line) = {}) => ~accepted

\* C24 case: a name with WITH and a line with WO pass the modality, anatomy
\* and coverage rules, and the line was refused.
C24_Witness ==
    /\ pc = "answered"
    /\ NotSubstring
    /\ contrast_status(proc_name) = {"WITH"}
    /\ contrast_status(line) = {"WITHOUT"}
    /\ modality_of(proc_name) = modality_of(line)
    /\ anatomy_of(proc_name) = anatomy_of(line)
    /\ 10 * Cardinality(significant_of(proc_name) \cap significant_of(line))
          >= 9 * Cardinality(significant_of(proc_name))
    /\ ~accepted

\* the positions of the records that are the first of their identity
first_positions(procs) ==
    {i \in DOMAIN procs : \A j \in 1..(i - 1) : procs[j].procedure # procs[i].procedure}

\* the position in the records of the k-th distinct identity
first_position(procs, k) ==
    CHOOSE i \in first_positions(procs) :
        Cardinality({j \in first_positions(procs) : j <= i}) = k

\* the image a match record comes from
image_of(r) == r.source

\* C25: the result list of the aggregator has exactly one entry for each
\* distinct identity among the records, in the order in which the identities
\* first occur in the records; an entry's count is the number of records of
\* its identity, whatever image they come from, and its total weight is the
\* unit weight times the count (for a count of 2, the unit weight added to
\* itself).
C25_OneGroupPerIdentity ==
    (pc = "aggregated" /\ raised = "no") =>
        /\ Len(results) = Cardinality(first_positions(all_procedures))
        /\ \A k \in DOMAIN results :
              LET name == all_procedures[first_position(all_procedures, k)].procedure
                  same == {i \in DOMAIN all_procedures :
                              all_procedures[i].procedure = name}
              IN  /\ results[k].procedure = name
                  /\ results[k].count = Cardinality(same)
                  /\ results[k].total_wrvu
                        = float_mul(results[k].wrvu_each, Cardinality(same))
                  /\ (Cardinality(same) = 2 =>
                        results[k].total_wrvu
                           = float_add(results[k].wrvu_each, results[k].wrvu_each))

\* C25 case: two images each gave one record of the same catalog entry, and
\* the aggregator returned one group of count 2.
C25_Witness ==
    /\ pc = "aggregated"
    /\ raised = "no"
    /\ Len(all_procedures) = 2
    /\ image_of(all_procedures[1]) # image_of(all_procedures[2])
    /\ all_procedures[1].procedure = all_procedures[2].procedure
    /\ ~all_procedures[1].is_generic
    /\ Len(results) = 1
    /\ results[1].count = 2
    /\ results[1].wrvu_each = dict_get(procedure_db, results[1].procedure, None).wrvu
    /\ results[1].total_wrvu = float_add(results[1].wrvu_each, results[1].wrvu_each)

\* the rules of the replacements dict that rewrite an alias code followed by
\* a space or a tab
alias_rules == 1..12

\* the characters that make a word longer: letters and digits
alphanumerics == uppercase_letters \cup lowercase_letters \cup digits

\* old occurs in s at i as a whole token: at the start of s or after a
\* character that is not a letter or a digit
token_at(s, old, i) ==
    match_at(s, old, i) /\ (i = 1 \/ s[i - 1] \notin alphanumerics)

\* s from position i on, every whole-token occurrence of old replaced by new
RECURSIVE replace_tokens_from(_, _, _, _)
replace_tokens_from(s, old, new, i) ==
    IF i > Len(s) THEN <<>>
    ELSE IF token_at(s, old, i)
         THEN new \o replace_tokens_from(s, old, new, i + Len(old))
         ELSE <<s[i]>> \o replace_tokens_from(s, old, new, i + 1)

\* the alias rules from the k-th on, each rewriting whole tokens only
RECURSIVE replace_alias_tokens(_, _)
replace_alias_tokens(s, k) ==
    IF k \notin alias_rules THEN s
    ELSE replace_alias_tokens(
             replace_tokens_from(s, replacements[k][1], replacements[k][2], 1),
             k + 1)

\* an alias code followed by a space or a tab ends a longer word of s
alias_inside_word(s) ==
    \E k \in alias_rules : \E i \in 2..Len(s) :
        match_at(s, replacements[k][1], i) /\ s[i - 1] \in alphanumerics

\* C26: the normalizer replaces an alias code followed by a space or a tab
\* only where it is a whole token, never where its two letters end a longer
\* word, and applies every alias rule before the rules that turn tab,
\* underscore, em dash and hyphen into a space: the cleaned text is what the
\* remaining rules make of the text with its whole-token alias codes
\* replaced.
C26_AliasWholeTokenOnly ==
    pc = "cleaned" =>
        cleaned = strip(collapse_spaces(apply_replacements(
                      replace_alias_tokens(upper(text), 1), 13)))

\* the raw line is nothing but a date: the date pattern matches all of it
bare_date(ln) ==
    \/ Len(ln) = 11 /\ ln[1] \in digits /\ date_at(ln, 2)
    \/ Len(ln) = 10 /\ date_at(ln, 1)

\* the raw lines that carry procedure text: at least 3 characters, not made
\* of digits only, not a bare date
carries_text(ln) == Len(ln) >= 3 /\ ~isdigit(ln) /\ ~bare_date(ln)

\* C27: the reconstructor loses no procedure text: every raw line of at least
\* 3 characters that is not digits-only and not a bare date is a fragment of
\* exactly one returned line, the fragments of the returned lines follow the
\* input order, and each returned line is its fragments joined by spaces; a
\* raw line that holds a procedure and its date is not dropped.
C27_NoProcedureTextLost ==
    pc = "returned" =>
        /\ Len(line_fragments) = Len(reconstructed_lines)
        /\ \A e \in DOMAIN line_fragments :
              /\ reconstructed_lines[e]
                    = join([j \in DOMAIN line_fragments[e] |->
                               raw_lines[line_fragments[e][j]]], <<" ">>)
              /\ \A j \in 2..Len(line_fragments[e]) :
                    line_fragments[e][j - 1] < line_fragments[e][j]
              /\ (e > 1 => line_fragments[e - 1][Len(line_fragments[e - 1])]
                              < line_fragments[e][1])
        /\ \A i \in DOMAIN raw_lines :
              carries_text(raw_lines[i]) =>
                  Cardinality({e \in DOMAIN line_fragments :
                                  i \in Range(line_fragments[e])}) = 1

\* the match records of one identity
records_of(name) == {i \in DOMAIN procedures : procedures[i].procedure = name}

\* C28: the aggregator classifies an identity as the matcher classified its
\* records: a result has is_generic = TRUE, the code "GENERIC" and a weight
\* of the generic table exactly when its records were emitted with
\* is_generic = TRUE, and has the catalog entry's weight and code otherwise;
\* generic_count is the number of records emitted with is_generic = TRUE.
C28_GenericClassificationAgrees ==
    pc = "done" =>
        /\ \A i \in DOMAIN results :
              LET r == results[i]
                  emitted_generic ==
                      \E k \in records_of(r.procedure) : procedures[k].is_generic
              IN  /\ r.is_generic = emitted_generic
                  /\ IF emitted_generic
                     THEN /\ r.cpt = "GENERIC"
                          /\ \E m \in keys(generic_wrvus) :
                                r.wrvu_each = dict_get(generic_wrvus, m, None)
                     ELSE /\ r.procedure \in keys(procedure_db)
                          /\ r.wrvu_each
                                = dict_get(procedure_db, r.procedure, None).wrvu
                          /\ r.cpt = dict_get(procedure_db, r.procedure, None).cpt
        /\ generic_count
              = Cardinality({k \in DOMAIN procedures : procedures[k].is_generic})

(***************************************************************************)
(* The window: WRVUCalculatorGUI.  The handlers add_files, clear_all and   *)
(* calculate_wrvus run in the main thread, one at a time; a calculation    *)
(* runs in a thread of its own and hands its result back with              *)
(* root.after(0, update); the main loop runs the scheduled closures.       *)
(* email_unmatched changes nothing of the window and is left out.          *)
(***************************************************************************)
S_NO_CALCULATIONS ==
    <<"N", "o", " ", "c", "a", "l", "c", "u", "l", "a", "t", "i", "o", "n",
      "s", " ", "y", "e", "t">>

S_ALL_RECOGNIZED ==
    <<"N", "o", " ", "u", "n", "m", "a", "t", "c", "h", "e", "d", " ", "p",
      "r", "o", "c", "e", "d", "u", "r", "e", "s", " ", "-", " ", "a", "l",
      "l", " ", "p", "r", "o", "c", "e", "d", "u", "r", "e", "s", " ", "w",
      "e", "r", "e", " ", "r", "e", "c", "o", "g", "n", "i", "z", "e", "d",
      "!">>

S_READY ==
    <<"R", "e", "a", "d", "y", " ", "-", " ", "c", "a", "p", "t", "u", "r",
      "e", " ", "s", "c", "r", "e", "e", "n", "s", "h", "o", "t", "s", " ",
      "o", "r", " ", "a", "d", "d", " ", "f", "i", "l", "e", "s">>

S_READY_TO_CALCULATE ==
    <<"R", "e", "a", "d", "y", " ", "t", "o", " ", "c", "a", "l", "c", "u",
      "l", "a", "t", "e", ":", " ">>

S_FILES ==
    <<" ", "f", "i", "l", "e", "s">>

\* The files the user can add, by path: one that is gone when the thread
\* looks for it, one whose text matches a catalog entry, one whose text
\* gives a generic record and an unmatched line.  The file at position k
\* has the base name basename(k).
GuiFiles ==
    << [kind |-> "missing", text |-> <<>>],
       [kind |-> "image",
        text |-> <<"C", "T", " ", "C", "H", "E", "S", "T", "\n",
                   "W", "I", "T", "H", " ", "C", "O", "N", "T", "R", "A", "S", "T", "\n",
                   "0", "1", "-", "J", "A", "N", "-", "2", "0", "2", "4", "\n">>],
       [kind |-> "image",
        text |-> <<"C", "T", " ", "C", "H", "E", "S", "T", "\n",
                   "0", "1", "-", "J", "A", "N", "-", "2", "0", "2", "4", "\n",
                   "W", "I", "T", "H", " ", "C", "O", "N", "T", "R", "A", "S", "T", "\n">>] >>

\* selected_files holds at most MaxFiles paths
MaxFiles == 2

\* self.captured_images: nothing in the program appends to it
captured_images == <<>>

\* update_status: the text it gives status_label
status_text(captured, selected) ==
    IF Len(captured) + Len(selected) = 0 THEN S_READY
    ELSE LET captured_text ==
                 IF captured # <<>>
                 THEN decimal(Len(captured))
                      \o <<" ", "s", "c", "r", "e", "e", "n", "s", "h", "o", "t", "s">>
                 ELSE <<>>
             files_text ==
                 IF selected # <<>> THEN decimal(Len(selected)) \o S_FILES
                 ELSE <<>>
         IN  IF captured_text # <<>> /\ files_text # <<>>
             THEN S_READY_TO_CALCULATE \o captured_text \o <<" ", "+", " ">>
                      \o files_text
             ELSE S_READY_TO_CALCULATE \o captured_text \o files_text

\* the locals of calculate_thread(image_paths) when the thread starts
new_thread(paths) ==
    [image_paths |-> paths, image_index |-> 0, all_procedures |-> <<>>,
     all_unmatched |-> <<>>, all_generic |-> <<>>]

\* what the loop body collects from each file of GuiFiles; the catalog of
\* the window's calculator is RunCatalog all along
file_table ==
    [k \in DOMAIN GuiFiles |-> image_contribution(RunCatalog, GuiFiles[k], k)]

\* all_procedures.extend(procedures); all_unmatched.extend(unmatched);
\* all_generic.extend(generic), and the loop moves on
extended(th, got) ==
    [th EXCEPT !.image_index = @ + 1,
               !.all_procedures = @ \o got.procedures,
               !.all_unmatched = @ \o got.unmatched_lines,
               !.all_generic = @ \o got.generic_lines]

\* one pass of "for image_path in image_paths" in the thread th
thread_image(th) ==
    extended(th, file_table[th.image_paths[th.image_index + 1]])

\* the arguments of the call of update_gui_results after calculate_wrvus
\* has returned out, or has raised
totals_call(out, unmatched) ==
    IF out.raised = "no"
    THEN gui_call(decimal(out.total_exams) \o S_EXAMS
                      \o format_1f(out.total_wrvus) \o S_WRVUS,
                  out.total_exams, out.total_wrvus, unmatched,
                  out.generic_count > 0)
    ELSE gui_call(S_ERROR, 0, float_zero, <<>>, TRUE)

\* the arguments of the one call of update_gui_results that ends
\* calculate_thread: no procedures found, the totals, or the error
update_call(db, procs, unmatched) ==
    IF procs = <<>>
    THEN gui_call(S_NO_PROCEDURES, 0, float_zero, <<>>, TRUE)
    ELSE totals_call(calculate_wrvus(db, procs), unmatched)

\* the accumulators of a thread that has taken all the files of paths
RECURSIVE accumulated(_, _, _)
accumulated(paths, k, acc) ==
    IF k > Len(paths) THEN acc
    ELSE accumulated(paths, k + 1,
             <<acc[1] \o file_table[paths[k]].procedures,
               acc[2] \o file_table[paths[k]].unmatched_lines>>)

\* the accumulators <<all_procedures, all_unmatched>> the threads of the
\* model can end with, and the call each of them leads to
AccumulatorPool ==
    {accumulated(paths, 1, <<<<>>, <<>>>>) :
        paths \in SeqsOf(DOMAIN GuiFiles, 1, MaxFiles)}

call_table ==
    [acc \in AccumulatorPool |-> update_call(RunCatalog, acc[1], acc[2])]

\* the call of update_gui_results the thread th ends with
hand_back(th) == call_table[<<th.all_procedures, th.all_unmatched>>]

\* root.after(0, update) that loses the closure
after_dropped(queue, call) == queue

\* self.root.after(0, update): the closure, which holds the arguments of the
\* call, is queued for the main loop
after(queue, call) == Append(queue, call)

\* the foreground update() gives results_label
result_colour(call) ==
    IF call.total_exams > 0
    THEN (IF call.has_issues THEN "orange" ELSE "green")
    ELSE "red"

InitGui ==
    /\ pc = "mainloop"
    /\ procedure_db = RunCatalog
    /\ selected_files = <<>>
    /\ status_label = S_READY
    /\ threads = <<>>
    /\ after_queue = <<>>
    /\ progress = "stopped"
    /\ calculate_btn = "normal"
    /\ results_label = [text |-> S_NO_CALCULATIONS, foreground |-> "default"]
    /\ unmatched_procedures = <<>>
    /\ unmatched_text = <<>>
    /\ email_btn = "disabled"
    /\ cleared = FALSE
    /\ procedure_lines = <<>>
    /\ procedures = <<>>
    /\ unmatched_lines = <<>>
    /\ generic_lines = <<>>
    /\ IdleAgg
    /\ IdleClean
    /\ IdleAccept
    /\ IdleGeneric
    /\ IdleRecon
    /\ IdleRun

\* what the handlers and the threads of the window leave alone
restVars ==
    <<pc, cleanVars, acceptVars, matchVars, aggVars, genericVars, reconVars,
      runVars>>

\* add_files: the user picks a file in the dialog (several files picked at
\* once are as many additions); a cancelled dialog changes nothing
AddFiles ==
    /\ pc = "mainloop"
    /\ Len(selected_files) < MaxFiles
    /\ \E k \in DOMAIN GuiFiles :
          /\ selected_files' = Append(selected_files, k)
          /\ status_label' = status_text(captured_images, selected_files')
    /\ UNCHANGED <<threads, after_queue, progress, calculate_btn,
                   results_label, unmatched_procedures, unmatched_text,
                   email_btn, cleared, restVars>>

\* clear_all
ClearAll ==
    /\ pc = "mainloop"
    /\ selected_files' = <<>>
    /\ unmatched_procedures' = <<>>
    /\ status_label' = status_text(<<>>, <<>>)
    /\ results_label' = [text |-> S_NO_CALCULATIONS, foreground |-> "black"]
    /\ unmatched_text' = <<>>
    /\ email_btn' = "disabled"
    /\ cleared' = TRUE
    /\ UNCHANGED <<threads, after_queue, progress, calculate_btn, restVars>>

\* calculate_wrvus of the window, the command of the Calculate button: a
\* disabled button does not invoke its command; without images the handler
\* shows a warning and returns
CalculateClick ==
    /\ pc = "mainloop"
    /\ calculate_btn = "normal"
    /\ LET all_images == captured_images \o selected_files
       IN  IF all_images = <<>>
           THEN UNCHANGED <<progress, calculate_btn, threads, cleared>>
           ELSE /\ progress' = "running"
                /\ calculate_btn' = "disabled"
                /\ threads' = Append(threads, new_thread(all_images))
                /\ cleared' = FALSE
    /\ UNCHANGED <<selected_files, status_label, after_queue, results_label,
                   unmatched_procedures, unmatched_text, email_btn, restVars>>

\* a thread takes its next image: the body of "for image_path in
\* image_paths"
ThreadImage ==
    /\ pc = "mainloop"
    /\ \E i \in DOMAIN threads :
          /\ threads[i].image_index < Len(threads[i].image_paths)
          /\ threads' = [threads EXCEPT ![i] = thread_image(@)]
    /\ UNCHANGED <<selected_files, status_label, after_queue, progress,
                   calculate_btn, results_label, unmatched_procedures,
                   unmatched_text, email_btn, cleared, restVars>>

\* a thread that has taken all its images calls update_gui_results, which
\* schedules update, and ends
ThreadHandBack ==
    /\ pc = "mainloop"
    /\ \E i \in DOMAIN threads :
          /\ threads[i].image_index = Len(threads[i].image_paths)
          /\ after_queue' = after(after_queue, hand_back(threads[i]))
          /\ threads' = [j \in 1..(Len(threads) - 1) |->
                            IF j < i THEN threads[j] ELSE threads[j + 1]]
    /\ UNCHANGED <<selected_files, status_label, progress, calculate_btn,
                   results_label, unmatched_procedures, unmatched_text,
                   email_btn, cleared, restVars>>

\* the main loop runs the oldest scheduled update()
RunUpdate ==
    /\ pc = "mainloop"
    /\ after_queue # <<>>
    /\ LET call == Head(after_queue)
       IN  /\ progress' = "stopped"
           /\ calculate_btn' = "normal"
           /\ results_label' = [text |-> call.results_text,
                                foreground |-> result_colour(call)]
           /\ IF call.unmatched_list # <<>>
              THEN /\ unmatched_procedures' = call.unmatched_list
                   /\ unmatched_text' = join(call.unmatched_list, <<"\n">>)
                   /\ email_btn' = "normal"
              ELSE /\ unmatched_procedures' = unmatched_procedures
                   /\ unmatched_text' = S_ALL_RECOGNIZED
                   /\ email_btn' = "disabled"
    /\ after_queue' = Tail(after_queue)
    /\ UNCHANGED <<selected_files, status_label, threads, cleared, restVars>>

NextGui ==
    \/ AddFiles
    \/ ClearAll
    \/ CalculateClick
    \/ ThreadImage
    \/ ThreadHandBack
    \/ RunUpdate

SpecGui == InitGui /\ [][NextGui]_vars

\* The scheduler lets a thread that can run take its next step, and the main
\* loop runs a scheduled closure; nothing makes the user act.
SpecGuiFair ==
    /\ SpecGui
    /\ WF_vars(ThreadImage)
    /\ WF_vars(ThreadHandBack)
    /\ WF_vars(RunUpdate)

\* the calls of update_gui_results the threads of the model can end with
CallPool == Range(call_table)

\* a calculation is under way: a thread has not handed back, or its update
\* is scheduled and has not run
calculating == threads # <<>> \/ after_queue # <<>>

\* C29: every calculation started from the window completes its hand-back:
\* at most one thread is running at any time and at most one update is
\* scheduled; while a calculation is under way the Calculate button is
\* disabled and the progress bar runs; every thread schedules an update,
\* whichever way it ends, and every scheduled update is run: it shows the
\* thread's result text, stops the progress bar and enables the button.
C29_HandBackCompletes ==
    /\ [](Len(threads) + Len(after_queue) <= 1)
    /\ [](calculating => (calculate_btn = "disabled" /\ progress = "running"))
    /\ [](~calculating => (calculate_btn = "normal" /\ progress = "stopped"))
    /\ (threads # <<>>) ~> (after_queue # <<>>)
    /\ \A call \in CallPool :
          (after_queue # <<>> /\ Head(after_queue) = call)
             ~> (/\ results_label.text = call.results_text
                 /\ progress = "stopped"
                 /\ calculate_btn = "normal")

\* C29 case: a calculation that found procedures has handed back and its
\* update has run.
C29_Witness ==
    /\ ~calculating
    /\ progress = "stopped"
    /\ calculate_btn = "normal"
    /\ results_label.foreground \in {"green", "orange"}
    /\ \E call \in CallPool :
          call.total_exams > 0 /\ results_label.text = call.results_text

\* C30: once Clear All has run, and until the user starts a new calculation,
\* the results label shows "No calculations yet", the stored unmatched list
\* is empty and the email button is disabled, whatever a thread started
\* earlier does.
C30_ClearAllNotUndone ==
    cleared =>
        /\ results_label.text = S_NO_CALCULATIONS
        /\ unmatched_procedures = <<>>
        /\ email_btn = "disabled"

=============================================================================
